---- MODULE Spec2Model ----
(***************************************************************************)
(* The authentication and authorization layer of the restaurant API:       *)
(* app/core/database.py (store handle, indexes), app/routes/auth.py        *)
(* (tokens, password hashing, register, login) and the role gates of       *)
(* app/routes/admin.py and app/routes/menu.py.                             *)
(*                                                                         *)
(* The collection store (MongoDB) and the libraries (python-jose, bcrypt)  *)
(* are modelled by what the code relies on: find_one / insert_one /        *)
(* find_one_and_update on the users collection, unique indexes, HS256      *)
(* signatures as an ideal MAC, bcrypt as a salted one-way hash.            *)
(***************************************************************************)
EXTENDS Integers, Sequences, FiniteSets, TLC

VARIABLES
    started,      \* lifespan startup (init_db) has run; requests are served after it
    database,     \* db.database is not None
    unique_idx,   \* fields of the users collection that carry a unique index
    storeUp,      \* environment: the store answers calls (FALSE: every call raises)
    users,        \* the users collection, in insertion order
    reg,          \* the register requests in flight or answered, one per client
    last,         \* the last request answered by login or by a protected endpoint
    now,          \* the clock, in seconds (datetime.utcnow())
    tok,          \* the bearer token a caller holds (token specification)
    origin,       \* the arguments create_access_token was last called with
    verdict,      \* what verify_token last answered for tok
    orders,       \* the orders collection
    reservations, \* the reservations collection
    SAMPLE_RESERVATIONS, \* the in-memory list reservations.py serves without a store
    menu_items,   \* the menu_items collection
    SAMPLE_MENU,  \* the in-memory list menu.py serves without a store
    adding        \* the add_menu_item requests in flight or answered, one per client

vars == <<started, database, unique_idx, storeUp, users, reg, last, now, tok, origin, verdict,
          orders, reservations, SAMPLE_RESERVATIONS, menu_items, SAMPLE_MENU, adding>>

-----------------------------------------------------------------------------
(* Bounds *)

\* Number of clients that send a register request concurrently.
NumClients == 2
\* Number of those clients that register in the account service (Spec).
NumCallers == 1
\* The clock runs from 0 to MaxTime.
MaxTime == 3

Clients == 1..NumClients
Callers == 1..NumCallers
Emails == {"a@x.com", "b@x.com"}
Usernames == {"alice", "bob"}
Passwords == {"pw1"}
Salts == {"salt1"}
Roles == {"customer", "admin"}

\* Python's None.
None == "None"

-----------------------------------------------------------------------------
(* Configuration of app/routes/auth.py *)

SECRET_KEY == "your-secret-key-here"
ACCESS_TOKEN_EXPIRE_MINUTES == 30

\* timedelta(minutes = m) in seconds.
timedelta_minutes(m) == m * 60

-----------------------------------------------------------------------------
(* Values *)

\* A dict lookup with Python's dict.get: None when the key is absent.
Get(d, k) == IF k \in DOMAIN d THEN d[k] ELSE None

\* An Optional value that cannot be compared with None is a sequence of at most
\* one element: << >> is None.
Absent == << >>
Some(x) == <<x>>

\* str(ObjectId): the store's generated identities and their string forms.
OidStr == <<"oid1", "oid2", "oid3", "oid4", "oid5">>
\* Strings a caller may send as a user id.
UserIdStrings == {"oid1", "oid2", "dev_admin_id"}

\* str(result.inserted_id)
str_oid(n) == OidStr[n]
\* ObjectId.is_valid(s): a 24-digit hexadecimal string.
ObjectId_is_valid(s) == s \in {"oid1", "oid2", "oid3", "oid4", "oid5", "oid9"}
\* ObjectId(s), for a valid s: 0 stands for an ObjectId that no document has.
ObjectId(s) == IF \E n \in DOMAIN OidStr : OidStr[n] = s
               THEN CHOOSE n \in DOMAIN OidStr : OidStr[n] = s
               ELSE 0

\* An HTTP response: status, detail (of an HTTPException), headers and body.
Response(status, detail, headers, body) ==
    [status |-> status, detail |-> detail, headers |-> headers, body |-> body]
NoResponse == Response(0, None, None, Absent)
HTTPException(status, detail, headers) == Response(status, detail, headers, Absent)

-----------------------------------------------------------------------------
(* Tokens: create_access_token, verify_token (auth.py 46-75) *)

\* HMAC-SHA256 as an ideal MAC: the signature determines the key and the signed claims.
HS256(claims, key) == <<key, claims>>

\* jwt.encode(claims, key, algorithm = "HS256")
jwt_encode(claims, key) ==
    [form |-> "jws", claims |-> claims, sig |-> HS256(claims, key)]

\* jwt.decode(token, key, algorithms = ["HS256"]) at time t: the claims, or JWTError.
\* The signature is verified first; then the exp claim, when present, is
\* validated: python-jose raises ExpiredSignatureError when exp < now.
jwt_decode(token, key, t) ==
    IF token.form # "jws" THEN [error |-> "JWTError", claims |-> Absent]
    ELSE IF token.sig # HS256(token.claims, key) THEN [error |-> "JWTError", claims |-> Absent]
    ELSE IF "exp" \in DOMAIN token.claims /\ token.claims.exp < t
         THEN [error |-> "JWTError", claims |-> Absent]
    ELSE [error |-> None, claims |-> Some(token.claims)]

\* A create_access_token that builds the claims from the expiry alone.
create_access_token_forgets_data(data, expires_delta, t) ==
    LET expire == IF expires_delta # Absent /\ expires_delta # Some(0)
                  THEN t + expires_delta[1]
                  ELSE t + timedelta_minutes(ACCESS_TOKEN_EXPIRE_MINUTES)
    IN  jwt_encode([exp |-> expire], SECRET_KEY)

\* create_access_token(data, expires_delta) called at time t. expires_delta is an
\* Optional timedelta in seconds; `if expires_delta:` is false for None and for
\* timedelta(0).
create_access_token(data, expires_delta, t) ==
    LET expire == IF expires_delta # Absent /\ expires_delta # Some(0)
                  THEN t + expires_delta[1]
                  ELSE t + timedelta_minutes(ACCESS_TOKEN_EXPIRE_MINUTES)
        to_encode == [k \in DOMAIN data \cup {"exp"} |->
                         IF k = "exp" THEN expire ELSE data[k]]
    IN  jwt_encode(to_encode, SECRET_KEY)

\* A missing-subject exception with a detail of its own.
MissingSubException_distinct ==
    HTTPException(401, "Token has no subject", "WWW-Authenticate: Bearer")

\* The HTTPException verify_token raises when the payload has no "sub" (63-68).
MissingSubException ==
    HTTPException(401, "Could not validate credentials", "WWW-Authenticate: Bearer")

\* The HTTPException verify_token raises on jwt.JWTError (70-75).
JWTErrorException ==
    HTTPException(401, "Could not validate credentials", "WWW-Authenticate: Bearer")

\* A verify_token that looks the subject up in the users collection and
\* rejects the token of an account that is missing or inactive.
verify_token_revoking(token, t) ==
    LET d == jwt_decode(token, SECRET_KEY, t) IN
    IF d.error # None THEN [payload |-> Absent, raised |-> JWTErrorException]
    ELSE IF Get(d.claims[1], "sub") = None
         THEN [payload |-> Absent, raised |-> MissingSubException]
    ELSE IF ~\E i \in DOMAIN users :
               OidStr[users[i]["_id"]] = d.claims[1].sub /\ users[i].is_active
         THEN [payload |-> Absent, raised |-> JWTErrorException]
         ELSE [payload |-> d.claims, raised |-> NoResponse]

\* verify_token(credentials) at time t: the payload, or the exception it raises.
verify_token(token, t) ==
    LET d == jwt_decode(token, SECRET_KEY, t) IN
    IF d.error # None
    THEN [payload |-> Absent, raised |-> JWTErrorException]
    ELSE IF Get(d.claims[1], "sub") = None
         THEN [payload |-> Absent, raised |-> MissingSubException]
         ELSE [payload |-> d.claims, raised |-> NoResponse]

-----------------------------------------------------------------------------
(* Passwords: hash_password, verify_password (auth.py 77-83) *)

\* The part of a password bcrypt works on: its first 72 bytes.
bcrypt_key(password) ==
    IF Len(password) > 72 THEN SubSeq(password, 1, 72) ELSE password

\* bcrypt.hashpw(password, salt): the hash embeds its salt and is computed from
\* the salt and the first 72 bytes of the password.
hash_password(password, salt) ==
    [salt |-> salt, digest |-> <<salt, bcrypt_key(password)>>]

\* bcrypt.checkpw(password, hashed): rehash with the embedded salt and compare.
verify_password(password, hashed_password) ==
    hash_password(password, hashed_password.salt) = hashed_password

-----------------------------------------------------------------------------
(* The collection store: the users collection (database.py, motor) *)

\* find_one({field: value}): the first matching document, or None.
find_one(coll, field, value) ==
    IF \E i \in DOMAIN coll : coll[i][field] = value
    THEN Some(coll[CHOOSE i \in DOMAIN coll :
                     /\ coll[i][field] = value
                     /\ \A j \in DOMAIN coll : coll[j][field] = value => i <= j])
    ELSE Absent

\* insert_one(doc) raises DuplicateKeyError when doc repeats the value of a
\* uniquely indexed field.
DuplicateKey(coll, idx, doc) ==
    \E f \in idx : \E i \in DOMAIN coll : coll[i][f] = doc[f]

\* The collection after insert_one(doc): the store generates the _id.
insert_one(coll, doc) ==
    Append(coll, [k \in DOMAIN doc \cup {"_id"} |->
                     IF k = "_id" THEN Len(coll) + 1 ELSE doc[k]])

\* find_one_and_update({"_id": id}, {"$set": set}): the collection after it.
\* $set overwrites the fields of set the document has and adds the others.
find_one_and_update(coll, id, set) ==
    [i \in DOMAIN coll |->
        IF coll[i]["_id"] = id
        THEN [k \in DOMAIN coll[i] \cup DOMAIN set |->
                 IF k \in DOMAIN set THEN set[k] ELSE coll[i][k]]
        ELSE coll[i]]

\* Indexes declared without unique = True.
create_indexes_not_unique == {}

\* create_indexes (database.py 55-82): the unique indexes declared on users.
create_indexes == {"email", "username"}

\* get_collection("users") is not None (database.py 85-89).
get_collection == database

-----------------------------------------------------------------------------
(* Startup and environment *)

\* SAMPLE_RESERVATIONS as the module defines it (reservations.py 44-97).
SampleReservations ==
    <<[id |-> "1", status |-> "pending"], [id |-> "2", status |-> "confirmed"],
      [id |-> "3", status |-> "pending"], [id |-> "4", status |-> "cancelled"]>>

\* SAMPLE_MENU as the module defines it (menu.py 51-91): of an item, the id
\* and the name.
SampleMenu ==
    <<[id |-> "1", name |-> "Margherita Pizza"], [id |-> "2", name |-> "Caesar Salad"],
      [id |-> "3", name |-> "Grilled Salmon"]>>

\* An add_menu_item request that has not been sent.
IdleAdd == [pc |-> "idle", name |-> None, resp |-> NoResponse]

IdleRequest ==
    [pc |-> "idle", username |-> None, email |-> None, password |-> None,
     role |-> None, resp |-> NoResponse]

NoToken == [form |-> "none", claims |-> << >>, sig |-> << >>]
NoOrigin == [data |-> << >>, expires_delta |-> Absent, at |-> 0]
NoVerdict == [payload |-> Absent, raised |-> NoResponse]
NoLast == [op |-> None, stage |-> None, arg |-> << >>, resp |-> NoResponse]

Init ==
    /\ started = FALSE
    /\ database = FALSE
    /\ unique_idx = {}
    /\ storeUp \in BOOLEAN
    /\ users = << >>
    /\ reg = [c \in Clients |-> IdleRequest]
    /\ last = NoLast
    /\ now = 0
    /\ tok = NoToken
    /\ origin = NoOrigin
    /\ verdict = NoVerdict
    /\ orders = << >>
    /\ reservations = << >>
    /\ SAMPLE_RESERVATIONS = SampleReservations
    /\ menu_items = << >>
    /\ SAMPLE_MENU = SampleMenu
    /\ adding = [c \in Clients |-> IdleAdd]

\* init_db (database.py 22-47), run once by the lifespan before any request:
\* the ping fails when the store is down and the process continues without a
\* database handle; otherwise the handle is set and the indexes are created.
\* Startup is one step: the store does not change between the ping and the
\* create_index calls, so a handle always comes with both unique indexes.
init_db ==
    /\ ~started
    /\ started' = TRUE
    /\ IF storeUp
       THEN /\ database' = TRUE
            /\ unique_idx' = create_indexes
       ELSE /\ database' = FALSE
            /\ unique_idx' = unique_idx
    /\ UNCHANGED <<storeUp, users, reg, last, now, tok, origin, verdict, orders, reservations, SAMPLE_RESERVATIONS, menu_items, SAMPLE_MENU, adding>>

\* The store becomes unreachable: every call raises until it recovers. A
\* process without a database handle makes no call.
StoreFails ==
    /\ started
    /\ database
    /\ storeUp
    /\ storeUp' = FALSE
    /\ UNCHANGED <<started, database, unique_idx, users, reg, last, now, tok, origin, verdict, orders, reservations, SAMPLE_RESERVATIONS, menu_items, SAMPLE_MENU, adding>>

StoreRecovers ==
    /\ started
    /\ database
    /\ ~storeUp
    /\ storeUp' = TRUE
    /\ UNCHANGED <<started, database, unique_idx, users, reg, last, now, tok, origin, verdict, orders, reservations, SAMPLE_RESERVATIONS, menu_items, SAMPLE_MENU, adding>>

\* The clock advances.
Tick ==
    /\ now < MaxTime
    /\ now' = now + 1
    /\ UNCHANGED <<started, database, unique_idx, storeUp, users, reg, last, tok, origin, verdict, orders, reservations, SAMPLE_RESERVATIONS, menu_items, SAMPLE_MENU, adding>>

-----------------------------------------------------------------------------
(* POST /auth/register (auth.py 85-149) *)

\* The Token response model (auth.py 27-31) with its status code.
TokenResponse(status, access_token, user_id, role) ==
    Response(status, None, None,
             Some([access_token |-> access_token, token_type |-> "bearer",
                   user_id |-> user_id, role |-> role]))

\* `except Exception as e` (145-149): any exception but an HTTPException becomes a 500.
RegistrationFailed(e) ==
    HTTPException(500,
        IF e = "DuplicateKeyError" THEN "Registration failed: DuplicateKeyError"
                                   ELSE "Registration failed: ServerSelectionTimeoutError",
        None)

\* The handler of client c answers r.
RegisterAnswers(c, r) ==
    reg' = [reg EXCEPT ![c].pc = "done", ![c].resp = r]

\* Lines 129-141: the token and the response of a successful registration.
RegisterSuccess(c, user_id) ==
    TokenResponse(201,
        create_access_token([sub |-> user_id, role |-> reg[c].role],
                            Some(timedelta_minutes(ACCESS_TOKEN_EXPIRE_MINUTES)), now),
        user_id, reg[c].role)

\* The request arrives (86-92). With a database handle the handler goes on to its
\* first store call; without one it skips the checks and the insertion and
\* answers with the development identity (125-127).
register_receive(c) ==
    /\ started
    /\ reg[c].pc = "idle"
    /\ \E username \in Usernames, email \in Emails, password \in Passwords, role \in Roles :
         LET req == [IdleRequest EXCEPT !.username = username, !.email = email,
                                        !.password = password, !.role = role]
         IN  IF get_collection
             THEN reg' = [reg EXCEPT ![c] = [req EXCEPT !.pc = "find_email"]]
             ELSE reg' = [reg EXCEPT ![c] =
                            [req EXCEPT !.pc = "done",
                                        !.resp = TokenResponse(201,
                                            create_access_token(
                                                [sub |-> "dev_user_id", role |-> role],
                                                Some(timedelta_minutes(ACCESS_TOKEN_EXPIRE_MINUTES)),
                                                now),
                                            "dev_user_id", role)]]
    /\ UNCHANGED <<started, database, unique_idx, storeUp, users, last, now, tok, origin, verdict, orders, reservations, SAMPLE_RESERVATIONS, menu_items, SAMPLE_MENU, adding>>

\* An email lookup whose result is not checked.
register_find_email_unchecked(c) ==
    /\ reg[c].pc = "find_email"
    /\ IF ~storeUp
       THEN RegisterAnswers(c, RegistrationFailed("ServerSelectionTimeoutError"))
       ELSE reg' = [reg EXCEPT ![c].pc = "find_username"]
    /\ UNCHANGED <<started, database, unique_idx, storeUp, users, last, now, tok, origin, verdict, orders, reservations, SAMPLE_RESERVATIONS, menu_items, SAMPLE_MENU, adding>>

\* find_one({"email": ...}) and its check (93-98).
register_find_email(c) ==
    /\ reg[c].pc = "find_email"
    /\ IF ~storeUp
       THEN RegisterAnswers(c, RegistrationFailed("ServerSelectionTimeoutError"))
       ELSE IF find_one(users, "email", reg[c].email) # Absent
            THEN RegisterAnswers(c, HTTPException(400, "Email already registered", None))
            ELSE reg' = [reg EXCEPT ![c].pc = "find_username"]
    /\ UNCHANGED <<started, database, unique_idx, storeUp, users, last, now, tok, origin, verdict, orders, reservations, SAMPLE_RESERVATIONS, menu_items, SAMPLE_MENU, adding>>

\* find_one({"username": ...}) and its check (100-105).
register_find_username(c) ==
    /\ reg[c].pc = "find_username"
    /\ IF ~storeUp
       THEN RegisterAnswers(c, RegistrationFailed("ServerSelectionTimeoutError"))
       ELSE IF find_one(users, "username", reg[c].username) # Absent
            THEN RegisterAnswers(c, HTTPException(400, "Username already taken", None))
            ELSE reg' = [reg EXCEPT ![c].pc = "insert"]
    /\ UNCHANGED <<started, database, unique_idx, storeUp, users, last, now, tok, origin, verdict, orders, reservations, SAMPLE_RESERVATIONS, menu_items, SAMPLE_MENU, adding>>

\* The user document (107-119).
user_doc(c, salt) ==
    [username |-> reg[c].username, email |-> reg[c].email,
     password |-> hash_password(reg[c].password, salt),
     full_name |-> None, role |-> reg[c].role, created_at |-> now,
     is_active |-> TRUE]

\* insert_one(user_doc), the token and the response (121-141). A duplicate key
\* raises DuplicateKeyError, which `except Exception` turns into a 500.
register_insert(c) ==
    /\ reg[c].pc = "insert"
    /\ \E salt \in Salts :
         LET doc == user_doc(c, salt) IN
         IF ~storeUp
         THEN /\ RegisterAnswers(c, RegistrationFailed("ServerSelectionTimeoutError"))
              /\ users' = users
         ELSE IF DuplicateKey(users, unique_idx, doc)
              THEN /\ RegisterAnswers(c, RegistrationFailed("DuplicateKeyError"))
                   /\ users' = users
              ELSE /\ users' = insert_one(users, doc)
                   /\ RegisterAnswers(c, RegisterSuccess(c, str_oid(Len(users) + 1)))
    /\ UNCHANGED <<started, database, unique_idx, storeUp, last, now, tok, origin, verdict, orders, reservations, SAMPLE_RESERVATIONS, menu_items, SAMPLE_MENU, adding>>

register(c) ==
    \/ register_receive(c)
    \/ register_find_email(c)
    \/ register_find_username(c)
    \/ register_insert(c)

-----------------------------------------------------------------------------
(* POST /auth/login (auth.py 151-237) *)

\* The hardcoded development credentials (199-200).
admin_email == "admin@restauranrfresh.com"
admin_password == "admin123"

\* What a caller may send to login.
LoginEmails == Emails \cup {admin_email}
LoginPasswords == Passwords \cup {"pw2", admin_password}

\* No user has the email (164-170).
UserNotFound ==
    HTTPException(401, "Incorrect email or password", "WWW-Authenticate: Bearer")
\* A wrong-password exception with a detail of its own.
InvalidPassword_distinct ==
    HTTPException(401, "Incorrect password", "WWW-Authenticate: Bearer")

\* The password does not verify (183-189).
InvalidPassword ==
    HTTPException(401, "Incorrect email or password", "WWW-Authenticate: Bearer")
\* Not the hardcoded credentials, without a database handle (206-212).
InvalidFallbackCredentials ==
    HTTPException(401, "Incorrect email or password", "WWW-Authenticate: Bearer")
\* The account is not active (173-179).
AccountInactive ==
    HTTPException(401, "Account is inactive", "WWW-Authenticate: Bearer")
LoginFailed == HTTPException(500, "Login failed: ServerSelectionTimeoutError", None)

\* Lines 214-228: the token and the response of a successful login.
LoginSuccess(user_id, role) ==
    TokenResponse(200,
        create_access_token([sub |-> user_id, role |-> role],
                            Some(timedelta_minutes(ACCESS_TOKEN_EXPIRE_MINUTES)), now),
        user_id, role)

\* A login that issues every token for the default role.
login_response_default_role(email, password) ==
    IF get_collection
    THEN IF ~storeUp THEN LoginFailed
         ELSE LET user == find_one(users, "email", email) IN
              IF user = Absent THEN UserNotFound
              ELSE IF ~user[1].is_active THEN AccountInactive
              ELSE IF ~verify_password(password, user[1].password) THEN InvalidPassword
              ELSE LoginSuccess(str_oid(user[1]["_id"]), "customer")
    ELSE IF email = admin_email /\ password = admin_password
         THEN LoginSuccess("dev_admin_id", "admin")
         ELSE InvalidFallbackCredentials

\* A login that does not look at is_active.
login_response_skips_active(email, password) ==
    IF get_collection
    THEN IF ~storeUp THEN LoginFailed
         ELSE LET user == find_one(users, "email", email) IN
              IF user = Absent THEN UserNotFound
              ELSE IF ~verify_password(password, user[1].password) THEN InvalidPassword
              ELSE LoginSuccess(str_oid(user[1]["_id"]), user[1].role)
    ELSE IF email = admin_email /\ password = admin_password
         THEN LoginSuccess("dev_admin_id", "admin")
         ELSE InvalidFallbackCredentials

\* A login that verifies the password before it looks at is_active.
login_response_password_first(email, password) ==
    IF get_collection
    THEN IF ~storeUp THEN LoginFailed
         ELSE LET user == find_one(users, "email", email) IN
              IF user = Absent THEN UserNotFound
              ELSE IF ~verify_password(password, user[1].password) THEN InvalidPassword
              ELSE IF ~user[1].is_active THEN AccountInactive
              ELSE LoginSuccess(str_oid(user[1]["_id"]), user[1].role)
    ELSE IF email = admin_email /\ password = admin_password
         THEN LoginSuccess("dev_admin_id", "admin")
         ELSE InvalidFallbackCredentials

\* The response of login(email, password): one find_one, then the checks in the
\* order of the code: existence, is_active, password.
login_response(email, password) ==
    IF get_collection
    THEN IF ~storeUp THEN LoginFailed
         ELSE LET user == find_one(users, "email", email) IN
              IF user = Absent THEN UserNotFound
              ELSE IF ~user[1].is_active THEN AccountInactive
              ELSE IF ~verify_password(password, user[1].password) THEN InvalidPassword
              ELSE LoginSuccess(str_oid(user[1]["_id"]), user[1].role)
    ELSE IF email = admin_email /\ password = admin_password
         THEN LoginSuccess("dev_admin_id", "admin")
         ELSE InvalidFallbackCredentials

\* The statement at which login(email, password) leaves the handler: the
\* find_one call (it raised, or found nothing), the is_active test (173), the
\* verify_password call (182), or the return of the token; without a database
\* handle, the comparison with the hardcoded credentials (204).
login_stage(email, password) ==
    IF get_collection
    THEN IF ~storeUp THEN "find_one"
         ELSE LET user == find_one(users, "email", email) IN
              IF user = Absent THEN "find_one"
              ELSE IF ~user[1].is_active THEN "is_active"
              ELSE IF ~verify_password(password, user[1].password) THEN "verify_password"
              ELSE "return"
    ELSE "fallback"

login ==
    /\ started
    /\ \E email \in LoginEmails, password \in LoginPasswords :
         last' = [op |-> "login", stage |-> login_stage(email, password),
                  arg |-> [email |-> email, password |-> password],
                  resp |-> login_response(email, password)]
    /\ UNCHANGED <<started, database, unique_idx, storeUp, users, reg, now, tok, origin, verdict, orders, reservations, SAMPLE_RESERVATIONS, menu_items, SAMPLE_MENU, adding>>

-----------------------------------------------------------------------------
(* The bearer token a caller presents (security = HTTPBearer(), auth.py 13) *)

\* The caller keeps the token a register response carried.
KeepRegisterToken ==
    /\ \E c \in Clients :
         /\ reg[c].pc = "done"
         /\ reg[c].resp.body # Absent
         /\ tok' = reg[c].resp.body[1].access_token
    /\ tok' # tok
    /\ UNCHANGED <<started, database, unique_idx, storeUp, users, reg, last, now, origin, verdict, orders, reservations, SAMPLE_RESERVATIONS, menu_items, SAMPLE_MENU, adding>>

\* The caller keeps the token the last login response carried.
KeepLoginToken ==
    /\ last.op = "login"
    /\ last.resp.body # Absent
    /\ tok' = last.resp.body[1].access_token
    /\ tok' # tok
    /\ UNCHANGED <<started, database, unique_idx, storeUp, users, reg, last, now, origin, verdict, orders, reservations, SAMPLE_RESERVATIONS, menu_items, SAMPLE_MENU, adding>>

\* A string that is no JWS at all.
Garbage == [form |-> "garbage", claims |-> << >>, sig |-> << >>]

\* What a caller without the signing key can make of a token: the same claims
\* under a signature made with another key, the role claim raised to admin or the
\* expiry moved later under the old signature, or a string that is no token.
Tampered(t) ==
    IF t.form # "jws" THEN {Garbage}
    ELSE { [t EXCEPT !.sig = HS256(t.claims, "not-the-key")],
           [t EXCEPT !.claims = [k \in DOMAIN t.claims \cup {"role"} |->
                                    IF k = "role" THEN "admin" ELSE t.claims[k]]],
           [t EXCEPT !.claims = [k \in DOMAIN t.claims |->
                                    IF k = "exp" THEN t.claims[k] + 1 ELSE t.claims[k]]],
           Garbage }

\* The token is a JWS signed with the process key.
WellSigned(t) == t.form = "jws" /\ t.sig = HS256(t.claims, SECRET_KEY)

\* The caller alters the token the service gave it.
TamperToken ==
    /\ tok.form = "jws"
    /\ tok.sig = HS256(tok.claims, SECRET_KEY)
    /\ tok' \in Tampered(tok)
    /\ tok' # tok
    /\ UNCHANGED <<started, database, unique_idx, storeUp, users, reg, last, now, origin, verdict, orders, reservations, SAMPLE_RESERVATIONS, menu_items, SAMPLE_MENU, adding>>

-----------------------------------------------------------------------------
(* GET /auth/me (auth.py 239-291) *)

\* User (auth.py 33-39, 262-269)
User(id, username, email, full_name, role, created_at) ==
    [id |-> id, username |-> username, email |-> email, full_name |-> full_name,
     role |-> role, created_at |-> created_at]

\* The body of get_current_user. The record is looked up by ObjectId(sub) for
\* a sub that is one, else by the string, which no stored _id equals. A missing
\* record raises HTTPException(404) inside the inner try, whose
\* `except Exception` catches it like a store error and falls through to the
\* development answer (270-282). That answer reads current_user["role"]: a
\* payload without role raises KeyError, which the outer handler turns into 500.
me_response(current_user) ==
    LET sub == current_user.sub
        found == /\ get_collection /\ storeUp /\ ObjectId_is_valid(sub)
                 /\ \E i \in DOMAIN users : users[i]["_id"] = ObjectId(sub)
        user == users[CHOOSE i \in DOMAIN users : users[i]["_id"] = ObjectId(sub)]
    IN  IF found
        THEN Response(200, None, None,
                 Some(User(str_oid(user["_id"]), user.username, user.email,
                           user.full_name, user.role, user.created_at)))
        ELSE IF "role" \in DOMAIN current_user
        THEN Response(200, None, None,
                 Some(User(sub, "dev_user", "dev@restauranrfresh.com",
                           "Development User", current_user.role, now)))
        ELSE HTTPException(500, "Failed to get user info: 'role'", None)

get_current_user ==
    /\ started
    /\ tok.form # "none"
    /\ LET current_user == verify_token(tok, now) IN
       IF current_user.payload = Absent
       THEN last' = [op |-> "get_current_user", stage |-> "verify_token",
                     arg |-> << >>, resp |-> current_user.raised]
       ELSE last' = [op |-> "get_current_user", stage |-> "body",
                     arg |-> << >>, resp |-> me_response(current_user.payload[1])]
    /\ UNCHANGED <<started, database, unique_idx, storeUp, users, reg, now, tok, origin, verdict, orders, reservations, SAMPLE_RESERVATIONS, menu_items, SAMPLE_MENU, adding>>

-----------------------------------------------------------------------------
(* The admin handlers (admin.py, menu.py): Depends(verify_token), the role     *)
(* check, then the body.                                                       *)

\* `if current_user.get("role") != "admin": raise HTTPException(403, ...)`
is_admin(current_user) == Get(current_user, "role") = "admin"
Forbidden(detail) == HTTPException(403, detail, None)
Ok(status, message) == Response(status, None, None, Some([message |-> message]))
ServerError(detail) == HTTPException(500, detail, None)
NotFound(detail) == HTTPException(404, detail, None)

\* A handler that compares the role the token states before the token is
\* verified.
AdminHandler_role_first(op, arg, forbidden_detail, body_resp, users_after, menu_after, samples_after) ==
    /\ started
    /\ tok.form # "none"
    /\ LET current_user == verify_token(tok, now) IN
       IF ~is_admin(tok.claims)
       THEN /\ last' = [op |-> op, stage |-> "role_check", arg |-> arg,
                        resp |-> Forbidden(forbidden_detail)]
            /\ UNCHANGED <<users, menu_items, SAMPLE_MENU>>
       ELSE IF current_user.payload = Absent
       THEN /\ last' = [op |-> op, stage |-> "verify_token", arg |-> arg,
                        resp |-> current_user.raised]
            /\ UNCHANGED <<users, menu_items, SAMPLE_MENU>>
       ELSE /\ last' = [op |-> op, stage |-> "body", arg |-> arg, resp |-> body_resp]
            /\ users' = users_after
            /\ menu_items' = menu_after
            /\ SAMPLE_MENU' = samples_after
    /\ UNCHANGED <<started, database, unique_idx, storeUp, reg, now, tok, origin, verdict, orders, reservations, SAMPLE_RESERVATIONS, adding>>

\* A handler declared with Depends(verify_token) that starts with the role
\* check: the dependency answers 401 before the handler runs, the check answers
\* 403 before the body runs, and the body answers body_resp and leaves the users
\* collection as users_after, the menu_items collection as menu_after and
\* SAMPLE_MENU as samples_after.
AdminHandler(op, arg, forbidden_detail, body_resp, users_after, menu_after, samples_after) ==
    /\ started
    /\ tok.form # "none"
    /\ LET current_user == verify_token(tok, now) IN
       IF current_user.payload = Absent
       THEN /\ last' = [op |-> op, stage |-> "verify_token", arg |-> arg,
                        resp |-> current_user.raised]
            /\ UNCHANGED <<users, menu_items, SAMPLE_MENU>>
       ELSE IF ~is_admin(current_user.payload[1])
       THEN /\ last' = [op |-> op, stage |-> "role_check", arg |-> arg,
                        resp |-> Forbidden(forbidden_detail)]
            /\ UNCHANGED <<users, menu_items, SAMPLE_MENU>>
       ELSE /\ last' = [op |-> op, stage |-> "body", arg |-> arg, resp |-> body_resp]
            /\ users' = users_after
            /\ menu_items' = menu_after
            /\ SAMPLE_MENU' = samples_after
    /\ UNCHANGED <<started, database, unique_idx, storeUp, reg, now, tok, origin, verdict, orders, reservations, SAMPLE_RESERVATIONS, adding>>

\* The body of activate_user / deactivate_user (admin.py 150-178, 190-218):
\* ObjectId(user_id) raises for a string that is no ObjectId, the store call
\* raises when the store is down; both become a 500.
set_active_response(user_id, ok_message, dev_message, failed) ==
    IF ~get_collection THEN Ok(200, dev_message)
    ELSE IF ~ObjectId_is_valid(user_id) THEN ServerError(failed)
    ELSE IF ~storeUp THEN ServerError(failed)
    ELSE IF \E i \in DOMAIN users : users[i]["_id"] = ObjectId(user_id)
         THEN Ok(200, ok_message)
         ELSE NotFound("User not found")

\* An update that also sets the role of the record.
set_active_users_sets_role(user_id, value) ==
    IF get_collection /\ ObjectId_is_valid(user_id) /\ storeUp
    THEN find_one_and_update(users, ObjectId(user_id),
                             [is_active |-> value, updated_at |-> now, role |-> "customer"])
    ELSE users

\* An update that matches the record and sets nothing.
set_active_users_unset(user_id, value) == users

\* The users collection after the body of activate_user / deactivate_user.
set_active_users(user_id, value) ==
    IF get_collection /\ ObjectId_is_valid(user_id) /\ storeUp
    THEN find_one_and_update(users, ObjectId(user_id),
                             [is_active |-> value, updated_at |-> now])
    ELSE users

\* PUT /admin/users/{user_id}/activate (admin.py 140-178)
activate_user ==
    \E user_id \in UserIdStrings :
        AdminHandler("activate_user", <<user_id>>,
            "Only administrators can activate users",
            set_active_response(user_id, "User activated successfully",
                "User activated successfully (development mode)",
                "Failed to activate user"),
            set_active_users(user_id, TRUE), menu_items, SAMPLE_MENU)

\* PUT /admin/users/{user_id}/deactivate (admin.py 180-218)
deactivate_user ==
    \E user_id \in UserIdStrings :
        AdminHandler("deactivate_user", <<user_id>>,
            "Only administrators can deactivate users",
            set_active_response(user_id, "User deactivated successfully",
                "User deactivated successfully (development mode)",
                "Failed to deactivate user"),
            set_active_users(user_id, FALSE), menu_items, SAMPLE_MENU)

\* A response built from the whole stored document.
AdminUserResponse_whole_document(user) ==
    [k \in DOMAIN user \cup {"id"} |-> IF k = "id" THEN str_oid(user["_id"]) ELSE user[k]]

\* AdminUserResponse (admin.py 22-28, 110-120): what get_all_users returns of a user.
AdminUserResponse(user) ==
    [id |-> str_oid(user["_id"]), username |-> user.username, email |-> user.email,
     role |-> user.role, is_active |-> user.is_active, created_at |-> user.created_at]

\* GET /admin/dashboard (admin.py 30-91)
get_dashboard_stats ==
    AdminHandler("get_dashboard_stats", << >>,
        "Only administrators can access dashboard",
        IF ~get_collection THEN Response(200, None, None, Some([total_users |-> 150]))
        ELSE IF ~storeUp THEN ServerError("Failed to get dashboard stats")
        ELSE Response(200, None, None, Some([total_users |-> Len(users)])),
        users, menu_items, SAMPLE_MENU)

\* GET /admin/users (admin.py 93-138): the body is the list of users, carried
\* in the field list of the response body.
get_all_users ==
    AdminHandler("get_all_users", << >>,
        "Only administrators can view all users",
        IF ~get_collection
        THEN Response(200, None, None,
                 Some([list |-> <<[id |-> "dev_admin_id", username |-> "admin",
                                  email |-> "admin@restaurantfresh.com", role |-> "admin",
                                  is_active |-> TRUE, created_at |-> now]>>]))
        ELSE IF ~storeUp THEN ServerError("Failed to get users")
        ELSE Response(200, None, None,
                 Some([list |-> [i \in DOMAIN users |-> AdminUserResponse(users[i])]])),
        users, menu_items, SAMPLE_MENU)

\* The statuses the body of a handler that changes no state can answer. The
\* upload directory and the contents of the lists and aggregates these handlers
\* return are outside this model's state: whether a file is acceptable is the
\* caller's choice, and the body answers any status the code has for it.
BodyStatuses(op) ==
    CASE op = "get_analytics" ->
            IF get_collection /\ ~storeUp THEN {500} ELSE {200}
      [] op = "upload_image" -> {400, 200, 500}
      [] op = "get_all_menu_items" ->
            IF get_collection /\ ~storeUp THEN {500} ELSE {200}

BodyHandler(op, forbidden_detail) ==
    \E st \in BodyStatuses(op) :
        AdminHandler(op, << >>, forbidden_detail, Response(st, None, None, Absent),
                     users, menu_items, SAMPLE_MENU)

\* GET /admin/analytics (admin.py 220-278)
get_analytics == BodyHandler("get_analytics", "Only administrators can access analytics")

\* POST /admin/upload-image (admin.py 306-361)
upload_image == BodyHandler("upload_image", "Only administrators can upload images")

\* A handler that runs its body for every verified token.
get_all_menu_items_ungated ==
    /\ started
    /\ tok.form # "none"
    /\ \E st \in BodyStatuses("get_all_menu_items") :
         LET current_user == verify_token(tok, now) IN
         IF current_user.payload = Absent
         THEN last' = [op |-> "get_all_menu_items", stage |-> "verify_token",
                       arg |-> << >>, resp |-> current_user.raised]
         ELSE last' = [op |-> "get_all_menu_items", stage |-> "body",
                       arg |-> << >>, resp |-> Response(st, None, None, Absent)]
    /\ UNCHANGED <<started, database, unique_idx, storeUp, users, reg, now, tok, origin, verdict, orders, reservations, SAMPLE_RESERVATIONS, menu_items, SAMPLE_MENU, adding>>

\* GET /admin/menu-items (admin.py 563-621)
get_all_menu_items ==
    BodyHandler("get_all_menu_items", "Only administrators can view all menu items")

-----------------------------------------------------------------------------
(* The menu (menu.py, admin.py): the menu_items collection and SAMPLE_MENU.    *)
(* Of a menu item the model keeps the id and the name. The other fields of a   *)
(* request are copied like the name; created_at and updated_at are timestamps  *)
(* no handler reads.                                                           *)

\* The most documents the orders, reservations and menu_items collections hold
\* together when a request creates one more.
MaxDocs == 1
StoreHolds == Len(orders) + Len(reservations) + Len(menu_items)

\* Names a caller may give a menu item through add_menu_item and through the
\* menu routes, and strings it may send as an item id.
MenuNames == {"Soup", "Salad"}
ItemNames == {"Soup"}
MenuItemIdStrings == {"oid1", "1"}
\* The name field of a MenuItemUpdate: not set, set to null, or set to a name.
UpdateNames == {Absent, Some(None), Some("Salad")}

\* f"dev_{n}"
DevId == <<"dev_1", "dev_2", "dev_3", "dev_4", "dev_5", "dev_6", "dev_7">>

\* The _id the store generates for the next document of a collection.
NextId(coll) ==
    IF coll = << >> THEN 1
    ELSE 1 + (CHOOSE n \in {coll[i]["_id"] : i \in DOMAIN coll} :
                 \A i \in DOMAIN coll : coll[i]["_id"] <= n)

insert_doc(coll, doc) ==
    Append(coll, [k \in DOMAIN doc \cup {"_id"} |->
                     IF k = "_id" THEN NextId(coll) ELSE doc[k]])

has_doc(coll, id) == \E i \in DOMAIN coll : coll[i]["_id"] = id
get_doc(coll, id) == coll[CHOOSE i \in DOMAIN coll : coll[i]["_id"] = id]

\* delete_one({"_id": id}): the collection after it.
delete_one(coll, id) == SelectSeq(coll, LAMBDA d : d["_id"] # id)

\* The first entry of an in-memory list with the id, or 0.
sample_index(list, id) ==
    IF \E i \in DOMAIN list : list[i].id = id
    THEN CHOOSE i \in DOMAIN list :
            list[i].id = id /\ \A j \in DOMAIN list : list[j].id = id => i <= j
    ELSE 0

sample_pop(list, i) == SubSeq(list, 1, i - 1) \o SubSeq(list, i + 1, Len(list))

sample_set(list, i, set) ==
    [list EXCEPT ![i] = [k \in DOMAIN list[i] \cup DOMAIN set |->
                            IF k \in DOMAIN set THEN set[k] ELSE list[i][k]]]

\* The store finds the document ObjectId(id) names.
store_serves(coll, id) ==
    get_collection /\ ObjectId_is_valid(id) /\ storeUp /\ has_doc(coll, ObjectId(id))

\* The document a create request builds (menu.py 214-228, admin.py 386-398).
item_doc(name) == [name |-> name]

\* MenuItemResponse (menu.py 23-36, admin.py 292-304)
MenuItemResponse(id, doc) == [id |-> id, name |-> doc.name]

\* A handler returned None where its response_model is MenuItemResponse: the
\* response fails validation after the handler and the answer is a bare 500.
ResponseValidationError == HTTPException(500, "Internal Server Error", None)

MenuItemNotFound == NotFound("Menu item not found")

\* The body of add_menu_item (admin.py 373-439) for a name.
add_menu_item_response(name) ==
    IF ~get_collection
    THEN Response(200, None, None, Some(MenuItemResponse("dev_item_id", item_doc(name))))
    ELSE IF ~storeUp THEN ServerError("Failed to add menu item")
    ELSE IF find_one(menu_items, "name", name) # Absent
    THEN HTTPException(400, "Menu item with this name already exists", None)
    ELSE Response(200, None, None,
             Some(MenuItemResponse(str_oid(NextId(menu_items)), item_doc(name))))

\* POST /admin/menu-items (admin.py 363-439), served without another request
\* between its find_one and its insert_one.
add_menu_item ==
    \E name \in MenuNames :
        LET inserts == get_collection /\ storeUp /\ find_one(menu_items, "name", name) = Absent
        IN  /\ inserts => StoreHolds < MaxDocs
            /\ AdminHandler("add_menu_item", <<name>>,
                   "Only administrators can add menu items",
                   add_menu_item_response(name),
                   users,
                   IF inserts THEN insert_doc(menu_items, item_doc(name)) ELSE menu_items,
                   SAMPLE_MENU)

\* PUT /admin/menu-items/{item_id} (admin.py 441-518): every field of the
\* request is set. ObjectId(item_id) raises for a string that is no ObjectId and
\* the store call raises when the store is down; both become a 500.
admin_update_menu_item ==
    \E item_id \in MenuItemIdStrings, name \in MenuNames :
        LET after == find_one_and_update(menu_items, ObjectId(item_id), item_doc(name)) IN
        AdminHandler("admin_update_menu_item", <<item_id>>,
            "Only administrators can update menu items",
            IF ~get_collection
            THEN Response(200, None, None, Some(MenuItemResponse(item_id, item_doc(name))))
            ELSE IF ~ObjectId_is_valid(item_id) \/ ~storeUp
            THEN ServerError("Failed to update menu item")
            ELSE IF ~has_doc(menu_items, ObjectId(item_id)) THEN MenuItemNotFound
            ELSE Response(200, None, None,
                     Some(MenuItemResponse(item_id, get_doc(after, ObjectId(item_id))))),
            users,
            IF store_serves(menu_items, item_id) THEN after ELSE menu_items,
            SAMPLE_MENU)

\* DELETE /admin/menu-items/{item_id} (admin.py 520-561)
admin_delete_menu_item ==
    \E item_id \in MenuItemIdStrings :
        AdminHandler("admin_delete_menu_item", <<item_id>>,
            "Only administrators can delete menu items",
            IF ~get_collection
            THEN Ok(200, "Menu item deleted successfully (development mode)")
            ELSE IF ~ObjectId_is_valid(item_id) \/ ~storeUp
            THEN ServerError("Failed to delete menu item")
            ELSE IF ~has_doc(menu_items, ObjectId(item_id)) THEN MenuItemNotFound
            ELSE Ok(200, "Menu item deleted successfully"),
            users,
            IF store_serves(menu_items, item_id)
            THEN delete_one(menu_items, ObjectId(item_id)) ELSE menu_items,
            SAMPLE_MENU)

\* A create_menu_item declared without the dependency and the role check: the
\* body runs for every request.
create_menu_item_ungated ==
    /\ started
    /\ tok.form # "none"
    /\ get_collection /\ storeUp
    /\ StoreHolds < MaxDocs
    /\ \E name \in ItemNames :
         /\ menu_items' = insert_doc(menu_items, item_doc(name))
         /\ last' = [op |-> "create_menu_item", stage |-> "body", arg |-> <<name>>,
                     resp |-> Response(201, None, None,
                                 Some(MenuItemResponse(str_oid(NextId(menu_items)),
                                                       item_doc(name))))]
    /\ UNCHANGED <<started, database, unique_idx, storeUp, users, reg, now, tok, origin, verdict, orders, reservations, SAMPLE_RESERVATIONS, SAMPLE_MENU, adding>>

\* POST /menu/ (menu.py 200-249). Without a store the document is appended to
\* SAMPLE_MENU with its id set, and then MenuItemResponse(id = item_id,
\* **item_doc) raises TypeError for the repeated keyword id, which
\* `except Exception` answers as a 500.
create_menu_item ==
    \E name \in ItemNames :
        /\ (get_collection /\ storeUp) => StoreHolds < MaxDocs
        /\ ~get_collection => Len(SAMPLE_MENU) <= Len(SampleMenu)
        /\ AdminHandler("create_menu_item", <<name>>,
               "Only administrators can create menu items",
               IF ~get_collection
               THEN ServerError("Failed to create menu item: TypeError")
               ELSE IF ~storeUp
               THEN ServerError("Failed to create menu item: ServerSelectionTimeoutError")
               ELSE Response(201, None, None,
                        Some(MenuItemResponse(str_oid(NextId(menu_items)), item_doc(name)))),
               users,
               IF get_collection /\ storeUp
               THEN insert_doc(menu_items, item_doc(name)) ELSE menu_items,
               IF ~get_collection
               THEN Append(SAMPLE_MENU,
                        [id |-> DevId[Len(SAMPLE_MENU) + 1], name |-> name])
               ELSE SAMPLE_MENU)

\* update_data of update_menu_item is not empty: the name is set and not null.
name_is_set(name) == name # Absent /\ name # Some(None)

\* PUT /menu/{item_id} (menu.py 251-328). With a store, an empty update_data
\* skips the `if update_data:` block and the handler returns None; a string that
\* is no ObjectId and a failing store call are caught by the bare `except:` and
\* answered 404.
update_menu_item ==
    \E item_id \in MenuItemIdStrings, name \in UpdateNames :
        LET set == IF name_is_set(name) THEN [name |-> name[1]] ELSE << >>
            after == find_one_and_update(menu_items, ObjectId(item_id), set)
            i == sample_index(SAMPLE_MENU, item_id)
            samples == sample_set(SAMPLE_MENU, i, set)
        IN  AdminHandler("update_menu_item", <<item_id, name>>,
                "Only administrators can update menu items",
                IF get_collection
                THEN IF ~name_is_set(name) THEN ResponseValidationError
                     ELSE IF ~store_serves(menu_items, item_id) THEN MenuItemNotFound
                     ELSE Response(200, None, None,
                              Some(MenuItemResponse(item_id, get_doc(after, ObjectId(item_id)))))
                ELSE IF i = 0 THEN MenuItemNotFound
                     ELSE Response(200, None, None,
                              Some(MenuItemResponse(item_id, samples[i]))),
                users,
                IF name_is_set(name) /\ store_serves(menu_items, item_id)
                THEN after ELSE menu_items,
                IF ~get_collection /\ i # 0 THEN samples ELSE SAMPLE_MENU)

\* DELETE /menu/{item_id} (menu.py 330-374)
delete_menu_item ==
    \E item_id \in MenuItemIdStrings :
        LET i == sample_index(SAMPLE_MENU, item_id) IN
        AdminHandler("delete_menu_item", <<item_id>>,
            "Only administrators can delete menu items",
            IF get_collection
            THEN IF store_serves(menu_items, item_id)
                 THEN Response(204, None, None, Absent) ELSE MenuItemNotFound
            ELSE IF i = 0 THEN MenuItemNotFound ELSE Response(204, None, None, Absent),
            users,
            IF store_serves(menu_items, item_id)
            THEN delete_one(menu_items, ObjectId(item_id)) ELSE menu_items,
            IF ~get_collection /\ i # 0 THEN sample_pop(SAMPLE_MENU, i) ELSE SAMPLE_MENU)

\* The requests of add_menu_item at the granularity of its store calls.
\* The request arrives: Depends(verify_token), the role check and
\* get_collection (admin.py 364-376).
add_menu_item_receive(c) ==
    /\ started
    /\ tok.form # "none"
    /\ adding[c].pc = "idle"
    /\ \E name \in MenuNames :
         LET current_user == verify_token(tok, now)
             answer(r) == [pc |-> "done", name |-> name, resp |-> r]
         IN  adding' = [adding EXCEPT ![c] =
                 IF current_user.payload = Absent THEN answer(current_user.raised)
                 ELSE IF ~is_admin(current_user.payload[1])
                 THEN answer(Forbidden("Only administrators can add menu items"))
                 ELSE IF ~get_collection THEN answer(add_menu_item_response(name))
                 ELSE [pc |-> "find_one", name |-> name, resp |-> NoResponse]]
    /\ UNCHANGED <<started, database, unique_idx, storeUp, users, reg, last, now, tok, origin, verdict, orders, reservations, SAMPLE_RESERVATIONS, menu_items, SAMPLE_MENU>>

\* find_one({"name": ...}) and its check (admin.py 378-383).
add_menu_item_find(c) ==
    /\ adding[c].pc = "find_one"
    /\ adding' = [adding EXCEPT ![c] =
         IF ~storeUp \/ find_one(menu_items, "name", adding[c].name) # Absent
         THEN [adding[c] EXCEPT !.pc = "done", !.resp = add_menu_item_response(adding[c].name)]
         ELSE [adding[c] EXCEPT !.pc = "insert_one"]]
    /\ UNCHANGED <<started, database, unique_idx, storeUp, users, reg, last, now, tok, origin, verdict, orders, reservations, SAMPLE_RESERVATIONS, menu_items, SAMPLE_MENU>>

\* insert_one(menu_item) and the response (admin.py 400-415). The menu_items
\* collection has no unique index (database.py 65-67): the insert succeeds
\* whatever the collection holds.
add_menu_item_insert(c) ==
    /\ adding[c].pc = "insert_one"
    /\ IF ~storeUp
       THEN /\ adding' = [adding EXCEPT ![c].pc = "done",
                                        ![c].resp = ServerError("Failed to add menu item")]
            /\ menu_items' = menu_items
       ELSE /\ menu_items' = insert_doc(menu_items, item_doc(adding[c].name))
            /\ adding' = [adding EXCEPT ![c].pc = "done",
                  ![c].resp = Response(200, None, None,
                      Some(MenuItemResponse(str_oid(NextId(menu_items)),
                                            item_doc(adding[c].name))))]
    /\ UNCHANGED <<started, database, unique_idx, storeUp, users, reg, last, now, tok, origin, verdict, orders, reservations, SAMPLE_RESERVATIONS, SAMPLE_MENU>>

\* The admin-only operations.
AdminOps ==
    {"get_dashboard_stats", "get_all_users", "activate_user", "deactivate_user",
     "get_analytics", "upload_image", "add_menu_item", "admin_update_menu_item",
     "admin_delete_menu_item", "get_all_menu_items", "create_menu_item",
     "update_menu_item", "delete_menu_item"}

-----------------------------------------------------------------------------
(* The registration specification: startup, the store's availability and      *)
(* concurrent register requests.                                              *)

NextRegister ==
    \/ init_db
    \/ StoreFails
    \/ StoreRecovers
    \/ \E c \in Clients : register_receive(c)
    \/ \E c \in Clients : register_find_email(c)
    \/ \E c \in Clients : register_find_username(c)
    \/ \E c \in Clients : register_insert(c)

SpecRegister == Init /\ [][NextRegister]_vars

-----------------------------------------------------------------------------
(* The account service: registration, login, the tokens the callers keep, and *)
(* the activation and deactivation of accounts. The other admin handlers      *)
(* change nothing this service reads; SpecGate composes them with the tokens. *)

Next ==
    \/ init_db
    \/ StoreFails
    \/ StoreRecovers
    \/ \E c \in Callers : register_receive(c)
    \/ \E c \in Callers : register_find_email(c)
    \/ \E c \in Callers : register_find_username(c)
    \/ \E c \in Callers : register_insert(c)
    \/ login
    \/ KeepRegisterToken
    \/ KeepLoginToken
    \/ activate_user
    \/ deactivate_user
    \/ get_all_users
    \/ get_current_user

Spec == Init /\ [][Next]_vars

-----------------------------------------------------------------------------
(* The token specification: create_access_token and verify_token as functions *)
(* of their arguments and the clock.                                          *)

\* The dicts create_access_token is called with: register and login pass an
\* identity and a role; a dict without "sub" or without "role" is what the
\* function accepts besides.
TokenSubs == {"oid1", "dev_admin_id"}
TokenData ==
    {[sub |-> s, role |-> r] : s \in TokenSubs, r \in Roles}
        \cup {[sub |-> "oid1"], [role |-> "admin"]}
\* The expires_delta arguments, in seconds: None, timedelta(0) and up to MaxDelta.
MaxDelta == 2
ExpiresDeltas == {Absent} \cup {Some(d) : d \in 0..MaxDelta}

\* create_access_token(data, expires_delta) is called and the caller keeps the token.
issue_token ==
    /\ \E data \in TokenData, expires_delta \in ExpiresDeltas :
         /\ tok' = create_access_token(data, expires_delta, now)
         /\ origin' = [data |-> data, expires_delta |-> expires_delta, at |-> now]
    /\ UNCHANGED <<started, database, unique_idx, storeUp, users, reg, last, now, verdict, orders, reservations, SAMPLE_RESERVATIONS, menu_items, SAMPLE_MENU, adding>>

\* verify_token(credentials) is called with the caller's token.
VerifyToken ==
    /\ tok.form # "none"
    /\ verdict' = verify_token(tok, now)
    /\ UNCHANGED <<started, database, unique_idx, storeUp, users, reg, last, now, tok, origin, orders, reservations, SAMPLE_RESERVATIONS, menu_items, SAMPLE_MENU, adding>>

NextToken ==
    \/ issue_token
    \/ TamperToken
    \/ Tick
    \/ VerifyToken

SpecToken == Init /\ [][NextToken]_vars

-----------------------------------------------------------------------------
(* The gate specification: the admin handlers called with tokens the service  *)
(* issued, with what a caller can make of them, at any time.                  *)

\* A caller holds a token that register or login issued to it: the identity
\* and the role of the request or of the stored record, and the configured
\* lifetime (auth.py 129-134, 214-219).
token_issued ==
    /\ \E sub \in TokenSubs, role \in Roles :
         tok' = create_access_token([sub |-> sub, role |-> role],
                    Some(timedelta_minutes(ACCESS_TOKEN_EXPIRE_MINUTES)), now)
    /\ tok' # tok
    /\ UNCHANGED <<started, database, unique_idx, storeUp, users, reg, last, now, origin, verdict, orders, reservations, SAMPLE_RESERVATIONS, menu_items, SAMPLE_MENU, adding>>

\* Time passes until the token the caller holds has expired.
TokenOutlived ==
    /\ now = 0
    /\ WellSigned(tok)
    /\ now' = tok.claims.exp + 1
    /\ UNCHANGED <<started, database, unique_idx, storeUp, users, reg, last, tok, origin, verdict, orders, reservations, SAMPLE_RESERVATIONS, menu_items, SAMPLE_MENU, adding>>

NextGate ==
    \/ init_db
    \/ TokenOutlived
    \/ StoreFails
    \/ StoreRecovers
    \/ token_issued
    \/ TamperToken
    \/ activate_user
    \/ deactivate_user
    \/ get_dashboard_stats
    \/ get_all_users
    \/ get_analytics
    \/ upload_image
    \/ add_menu_item
    \/ admin_update_menu_item
    \/ admin_delete_menu_item
    \/ get_all_menu_items
    \/ create_menu_item
    \/ update_menu_item
    \/ delete_menu_item

SpecGate == Init /\ [][NextGate]_vars


-----------------------------------------------------------------------------
(* Registration: the existence checks, the race and its loser                 *)

EmailTaken(c) == find_one(users, "email", reg[c].email) # Absent
UsernameTaken(c) == find_one(users, "username", reg[c].username) # Absent

\* C1: when register runs its email check, or its username check, against a
\* reachable store that holds a record with the request's email, respectively
\* username, the request ends with status 400 and the users collection is
\* unchanged; the username check is only reached from the email check, the
\* insertion only from the username check, and nothing but the insertion step
\* changes the collection.
C1_ChecksRejectBeforeInsert ==
    [][\A c \in Clients :
         /\ (reg[c].pc = "find_email" /\ reg'[c] # reg[c] /\ storeUp /\ EmailTaken(c))
              => /\ reg'[c].pc = "done"
                 /\ reg'[c].resp.status = 400
                 /\ reg'[c].resp.body = Absent
                 /\ users' = users
         /\ (reg[c].pc = "find_username" /\ reg'[c] # reg[c] /\ storeUp /\ UsernameTaken(c))
              => /\ reg'[c].pc = "done"
                 /\ reg'[c].resp.status = 400
                 /\ reg'[c].resp.body = Absent
                 /\ users' = users
         /\ (reg'[c].pc = "find_username" /\ reg[c].pc # "find_username")
              => reg[c].pc = "find_email"
         /\ (reg'[c].pc = "insert" /\ reg[c].pc # "insert")
              => reg[c].pc = "find_username"
         /\ (users' # users)
              => \E d \in Clients : reg[d].pc = "insert" /\ reg'[d].pc = "done"
      ]_vars

\* A request was refused by the email check while the collection holds the
\* record that took its email, and nothing was inserted for it.
C1_Witness ==
    \E c \in Clients :
        /\ reg[c].pc = "done"
        /\ reg[c].resp.status = 400
        /\ reg[c].resp.detail = "Email already registered"
        /\ EmailTaken(c)
        /\ Len(users) = 1

C3_TakenAlways400 ==
    [][\A c \in Clients :
         (/\ reg[c].pc \in {"find_email", "find_username", "insert"}
          /\ reg'[c].pc = "done"
          /\ storeUp
          /\ EmailTaken(c) \/ UsernameTaken(c))
            => reg'[c].resp.status = 400
      ]_vars

-----------------------------------------------------------------------------
(* The account service: store outages, inactive accounts, wrong passwords     *)

\* The store cannot serve a request: no handle since startup, or calls fail.
StoreUnavailable == ~database \/ ~storeUp

\* C4: a register request that ends, and a login, while the collection store
\* is unavailable is answered with a server error (status 500 or above) and
\* its response carries no token and no user_id.
C4_UnavailableStoreIsServerError ==
    [][/\ \A c \in Clients :
            (reg[c].pc # "done" /\ reg'[c].pc = "done" /\ StoreUnavailable)
              => /\ reg'[c].resp.status >= 500
                 /\ reg'[c].resp.body = Absent
       /\ (last' # last /\ last'.op = "login" /\ StoreUnavailable)
              => /\ last'.resp.status >= 500
                 /\ last'.resp.body = Absent
      ]_vars

\* The record login finds for an email, and what login decides from it.
AccountOf(email) == find_one(users, "email", email)
HasInactiveAccount(email) ==
    AccountOf(email) # Absent /\ ~AccountOf(email)[1].is_active
HasActiveAccount(email) ==
    AccountOf(email) # Absent /\ AccountOf(email)[1].is_active

\* C9: a login that reaches the store with the email of an account whose
\* is_active flag is false is answered 401 with the detail "Account is
\* inactive" and without a token, whatever password it supplies.
C9_InactiveAccountRefused ==
    [][(/\ last' # last
        /\ last'.op = "login"
        /\ database /\ storeUp
        /\ HasInactiveAccount(last'.arg.email))
          => /\ last'.resp.status = 401
             /\ last'.resp.detail = "Account is inactive"
             /\ last'.resp.body = Absent
      ]_vars

\* The last login supplied the correct password of an inactive account and was
\* refused as inactive.
C9_Witness ==
    /\ last.op = "login"
    /\ database /\ storeUp
    /\ HasInactiveAccount(last.arg.email)
    /\ verify_password(last.arg.password, AccountOf(last.arg.email)[1].password)
    /\ last.resp.status = 401
    /\ last.resp.detail = "Account is inactive"
    /\ last.resp.body = Absent

\* C10: in every state, a login with the email of an active account and a
\* password that does not verify gets the response a login with an email of no
\* account gets; when the store is reachable that response is 401 "Incorrect
\* email or password" with the WWW-Authenticate: Bearer header and no token.
C10_WrongPasswordLikeUnknownEmail ==
    \A e1, e2 \in LoginEmails : \A p1, p2 \in LoginPasswords :
        (/\ HasActiveAccount(e1)
         /\ ~verify_password(p1, AccountOf(e1)[1].password)
         /\ AccountOf(e2) = Absent)
          => /\ login_response(e1, p1) = login_response(e2, p2)
             /\ storeUp => login_response(e1, p1) =
                             Response(401, "Incorrect email or password",
                                      "WWW-Authenticate: Bearer", Absent)

\* The last login named an active account with a password that does not
\* verify, was answered 401 without a token, and some email has no account.
C10_Witness ==
    /\ last.op = "login"
    /\ database /\ storeUp
    /\ HasActiveAccount(last.arg.email)
    /\ ~verify_password(last.arg.password, AccountOf(last.arg.email)[1].password)
    /\ last.resp.status = 401
    /\ last.resp.detail = "Incorrect email or password"
    /\ last.resp.body = Absent
    /\ \E e \in LoginEmails : AccountOf(e) = Absent

-----------------------------------------------------------------------------
(* The role gate of the admin-only operations                                 *)

\* C5: when one of the thirteen admin-only operations answers a request whose
\* token verify_token accepts, the request is refused with status 403 at the
\* role check if the token's role is not admin, and reaches the body of the
\* operation if the role is admin.
C5_RoleGate ==
    [][(/\ last' # last
        /\ last'.op \in AdminOps
        /\ verify_token(tok, now).payload # Absent)
          => IF Get(verify_token(tok, now).payload[1], "role") = "admin"
             THEN last'.stage = "body"
             ELSE /\ last'.stage = "role_check"
                  /\ last'.resp.status = 403
                  /\ users' = users
      ]_vars

\* An admin-only operation of the menu routes refused the holder of a valid
\* customer token with 403.
C5_Witness ==
    /\ last.op = "create_menu_item"
    /\ last.stage = "role_check"
    /\ last.resp.status = 403
    /\ verify_token(tok, now).payload # Absent
    /\ Get(verify_token(tok, now).payload[1], "role") = "customer"

-----------------------------------------------------------------------------
(* verify_token: what it accepts, how it fails, and the round trip            *)

\* C6: a call of verify_token returns a payload only for a token that is well
\* signed under SECRET_KEY, has an exp later than the current time and has a
\* sub; and it rejects a token that is malformed, is not well signed, has an
\* exp earlier than the current time, or has no sub.
C6_AcceptsOnlyValidUnexpired ==
    [][(verdict' # verdict)
          => /\ (verdict'.payload # Absent)
                  => /\ WellSigned(tok)
                     /\ "exp" \in DOMAIN tok.claims
                     /\ tok.claims.exp > now
                     /\ "sub" \in DOMAIN tok.claims
             /\ (\/ ~WellSigned(tok)
                 \/ ("exp" \in DOMAIN tok.claims /\ tok.claims.exp < now)
                 \/ "sub" \notin DOMAIN tok.claims)
                  => verdict'.payload = Absent
      ]_vars

\* The response every failure of verify_token is required to produce.
Unauthorized ==
    Response(401, "Could not validate credentials", "WWW-Authenticate: Bearer", Absent)

\* C7: every verdict of verify_token that carries no payload carries the same
\* response: status 401, the detail "Could not validate credentials" and the
\* header WWW-Authenticate: Bearer, whatever made the token fail.
C7_FailuresIndistinguishable ==
    (verdict # NoVerdict /\ verdict.payload = Absent) => verdict.raised = Unauthorized

\* verify_token has failed a well signed, unexpired token for its missing sub.
C7_Witness ==
    /\ WellSigned(tok)
    /\ tok.claims.exp > now
    /\ "sub" \notin DOMAIN tok.claims
    /\ verdict = verify_token(tok, now)
    /\ verdict.payload = Absent
    /\ verdict.raised.status = 401

\* C8: when verify_token is called before the expiry of a token that
\* create_access_token made from an identity and a role, and that has not been
\* altered since, it returns a payload with exactly that sub and that role.
C8_RoundTrip ==
    [][(/\ verdict' # verdict
        /\ DOMAIN origin.data = {"sub", "role"}
        /\ tok = create_access_token(origin.data, origin.expires_delta, origin.at)
        /\ now < tok.claims.exp)
          => /\ verdict'.payload # Absent
             /\ verdict'.payload[1].sub = origin.data.sub
             /\ verdict'.payload[1].role = origin.data.role
      ]_vars

\* A token issued for an admin identity was verified at a later time, before
\* its expiry, and gave back that identity and role.
C8_Witness ==
    /\ DOMAIN origin.data = {"sub", "role"}
    /\ origin.data.role = "admin"
    /\ origin.expires_delta = Some(MaxDelta)
    /\ tok = create_access_token(origin.data, origin.expires_delta, origin.at)
    /\ origin.at < now
    /\ now < tok.claims.exp
    /\ verdict = verify_token(tok, now)
    /\ verdict.payload # Absent
    /\ verdict.payload[1].sub = origin.data.sub
    /\ verdict.payload[1].role = "admin"

-----------------------------------------------------------------------------
(* Deactivation, reactivation and login                                       *)

\* The index of the record with the id a request names, or 0.
RecordOf(user_id) ==
    IF \E i \in DOMAIN users : str_oid(users[i]["_id"]) = user_id
    THEN CHOOSE i \in DOMAIN users : str_oid(users[i]["_id"]) = user_id
    ELSE 0

\* The step is a call of op that the store served for an existing record.
SetActiveServed(op) ==
    /\ last' # last
    /\ last'.op = op
    /\ last'.stage = "body"
    /\ last'.resp.status = 200
    /\ database
    /\ RecordOf(last'.arg[1]) # 0

\* C11: a served deactivate_user(u) leaves u's record inactive and a served
\* activate_user(u) leaves it active; no other step changes the flag of any
\* record; and a login that reaches the store with u's email and correct
\* password fails with 401 and no token while the record is inactive, and
\* succeeds with a token for u while it is active. Hence a login between a
\* deactivation and the next activation fails, and a login after an activation
\* with no later deactivation succeeds.
C11_LoginFollowsActivation ==
    [][/\ SetActiveServed("deactivate_user")
            => ~users'[RecordOf(last'.arg[1])].is_active
       /\ SetActiveServed("activate_user")
            => users'[RecordOf(last'.arg[1])].is_active
       /\ \A i \in DOMAIN users :
            (users'[i].is_active # users[i].is_active)
              => /\ last'.op = (IF users'[i].is_active THEN "activate_user"
                                                       ELSE "deactivate_user")
                 /\ last'.arg = <<str_oid(users[i]["_id"])>>
       /\ (/\ last' # last
           /\ last'.op = "login"
           /\ database /\ storeUp
           /\ AccountOf(last'.arg.email) # Absent
           /\ verify_password(last'.arg.password, AccountOf(last'.arg.email)[1].password))
            => IF AccountOf(last'.arg.email)[1].is_active
               THEN /\ last'.resp.status = 200
                    /\ last'.resp.body # Absent
                    /\ last'.resp.body[1].user_id =
                         str_oid(AccountOf(last'.arg.email)[1]["_id"])
               ELSE /\ last'.resp.status = 401
                    /\ last'.resp.body = Absent
      ]_vars

\* A login with the correct password has succeeded for an account that an
\* activate_user call had set active again.
C11_Witness ==
    /\ last.op = "login"
    /\ last.resp.status = 200
    /\ AccountOf(last.arg.email) # Absent
    /\ AccountOf(last.arg.email)[1].is_active
    /\ "updated_at" \in DOMAIN AccountOf(last.arg.email)[1]
    /\ last.resp.body[1].user_id = str_oid(AccountOf(last.arg.email)[1]["_id"])

-----------------------------------------------------------------------------
(* The stored password hash stays in the store                                *)

\* A response body carries the password field of a stored document: as a field
\* of its own, in an element of the list it returns, or among the claims of
\* the token it returns.
CarriesPasswordField(resp) ==
    /\ resp.body # Absent
    /\ LET b == resp.body[1] IN
       \/ "password" \in DOMAIN b
       \/ /\ "list" \in DOMAIN b
          /\ \E i \in DOMAIN b.list : "password" \in DOMAIN b.list[i]
       \/ /\ "access_token" \in DOMAIN b
          /\ "password" \in DOMAIN b.access_token.claims

\* C12: no response of register, of login, of /auth/me, of the admin users
\* list or of the activation calls, and no failure of verify_token, carries the
\* password field of a user record, whether the request succeeded or failed.
C12_NoResponseCarriesHash ==
    /\ \A c \in Clients : ~CarriesPasswordField(reg[c].resp)
    /\ ~CarriesPasswordField(last.resp)
    /\ ~CarriesPasswordField(verdict.raised)

\* The admin users list has answered with an element for a stored record,
\* which holds a password hash.
C12_Witness ==
    /\ last.op = "get_all_users"
    /\ last.stage = "body"
    /\ last.resp.status = 200
    /\ database
    /\ Len(users) >= 1
    /\ Len(last.resp.body[1].list) = Len(users)
    /\ last.resp.body[1].list[1].email = users[1].email
    /\ users[1].password = hash_password("pw1", "salt1")

-----------------------------------------------------------------------------
(* Orders and reservations (orders.py, reservations.py): the endpoints         *)
(* declared with Depends(verify_token), and create_reservation                *)

\* Strings a caller may send as an order id or a reservation id.
OrderIdStrings == {"oid1", "1"}
ReservationIdStrings == {"oid1", "1"}

\* The status field of an update request: not set, or set.
UpdateStatuses == {Some("confirmed")}

\* The update document built from an update request whose only set field is
\* status: the fields that are set and not None, and updated_at.
update_data(status) ==
    IF status = Absent THEN [updated_at |-> now]
    ELSE [status |-> status[1], updated_at |-> now]

OrderResponse(doc) == [id |-> str_oid(doc["_id"]), status |-> doc.status]
ReservationResponse(id, doc) == [id |-> id, status |-> doc.status]
Unavailable == HTTPException(503, "Database connection unavailable", None)

\* A handler declared with current_user: dict = Depends(verify_token): the
\* dependency is resolved before the handler is called, and when it raises the
\* handler is not called.
ProtectedHandler(op, arg, body_resp, orders_after, reservations_after, samples_after) ==
    /\ started
    /\ tok.form # "none"
    /\ LET current_user == verify_token(tok, now) IN
       IF current_user.payload = Absent
       THEN /\ last' = [op |-> op, stage |-> "verify_token", arg |-> arg,
                        resp |-> current_user.raised]
            /\ orders' = orders
            /\ reservations' = reservations
            /\ SAMPLE_RESERVATIONS' = SAMPLE_RESERVATIONS
       ELSE /\ last' = [op |-> op, stage |-> "body", arg |-> arg, resp |-> body_resp]
            /\ orders' = orders_after
            /\ reservations' = reservations_after
            /\ SAMPLE_RESERVATIONS' = samples_after
    /\ UNCHANGED <<started, database, unique_idx, storeUp, users, reg, now, tok, origin, verdict, menu_items, SAMPLE_MENU, adding>>

\* POST /orders/ (orders.py 152-194). The handler has no `except HTTPException`
\* clause, so the 503 it raises without a store is caught by `except Exception`
\* and answered as a 500.
create_order ==
    /\ (get_collection /\ storeUp) => StoreHolds < MaxDocs
    /\ LET order_doc == [status |-> "pending", created_at |-> now, updated_at |-> now] IN
       IF ~get_collection
       THEN ProtectedHandler("create_order", << >>,
                HTTPException(500, "Failed to create order: 503: Database connection unavailable", None),
                orders, reservations, SAMPLE_RESERVATIONS)
       ELSE IF ~storeUp
       THEN ProtectedHandler("create_order", << >>,
                HTTPException(500, "Failed to create order: ServerSelectionTimeoutError", None),
                orders, reservations, SAMPLE_RESERVATIONS)
       ELSE ProtectedHandler("create_order", << >>,
                Response(201, None, None,
                    Some([id |-> str_oid(NextId(orders)), status |-> order_doc.status])),
                insert_doc(orders, order_doc), reservations, SAMPLE_RESERVATIONS)

\* POST /orders/guest (orders.py 106-150), which takes no token. Like
\* create_order it has no `except HTTPException` clause: the 503 it raises
\* without a store is answered as a 500.
create_guest_order ==
    /\ started
    /\ (get_collection /\ storeUp) => StoreHolds < MaxDocs
    /\ LET order_doc == [status |-> "pending", created_at |-> now, updated_at |-> now] IN
       IF ~get_collection
       THEN /\ orders' = orders
            /\ last' = [op |-> "create_guest_order", stage |-> "body", arg |-> << >>,
                        resp |-> HTTPException(500,
                            "Failed to create guest order: 503: Database connection unavailable",
                            None)]
       ELSE IF ~storeUp
       THEN /\ orders' = orders
            /\ last' = [op |-> "create_guest_order", stage |-> "body", arg |-> << >>,
                        resp |-> HTTPException(500,
                            "Failed to create guest order: ServerSelectionTimeoutError", None)]
       ELSE /\ orders' = insert_doc(orders, order_doc)
            /\ last' = [op |-> "create_guest_order", stage |-> "body", arg |-> << >>,
                        resp |-> Response(201, None, None,
                            Some([id |-> str_oid(NextId(orders)), status |-> "pending"]))]
    /\ UNCHANGED <<started, database, unique_idx, storeUp, users, reg, now, tok, origin, verdict, reservations, SAMPLE_RESERVATIONS, menu_items, SAMPLE_MENU, adding>>

\* The answer of a body that addresses one document of a store collection by
\* ObjectId(id): 503 without a store, 500 when ObjectId(id) or the store call
\* raises, 404 when no document matches, else found.
by_id_response(coll, id, failed, not_found, found) ==
    IF ~get_collection THEN Unavailable
    ELSE IF ~ObjectId_is_valid(id) THEN ServerError(failed)
    ELSE IF ~storeUp THEN ServerError(failed)
    ELSE IF ~has_doc(coll, ObjectId(id)) THEN NotFound(not_found)
    ELSE found

\* PUT /orders/{order_id} (orders.py 196-244)
update_order ==
    \E order_id \in OrderIdStrings, status \in UpdateStatuses :
        LET after == find_one_and_update(orders, ObjectId(order_id), update_data(status)) IN
        ProtectedHandler("update_order", <<order_id>>,
            by_id_response(orders, order_id, "Failed to update order", "Order not found",
                Response(200, None, None,
                    Some(OrderResponse(get_doc(after, ObjectId(order_id)))))),
            IF store_serves(orders, order_id) THEN after ELSE orders,
            reservations, SAMPLE_RESERVATIONS)

\* DELETE /orders/{order_id} (orders.py 246-272)
delete_order ==
    \E order_id \in OrderIdStrings :
        ProtectedHandler("delete_order", <<order_id>>,
            by_id_response(orders, order_id, "Failed to delete order", "Order not found",
                Response(204, None, None, Absent)),
            IF store_serves(orders, order_id)
            THEN delete_one(orders, ObjectId(order_id)) ELSE orders,
            reservations, SAMPLE_RESERVATIONS)

\* The GET routes of the orders router in the order of their registration
\* (orders.py 62, 274, 319), by what follows the prefix: a literal segment,
\* or one path parameter (no segment).
orders_get_routes ==
    <<[path |-> "/", segment |-> Some(""), endpoint |-> "get_orders"],
      [path |-> "/{order_id}", segment |-> Absent, endpoint |-> "get_order"],
      [path |-> "/stats", segment |-> Some("stats"), endpoint |-> "get_order_stats"]>>

\* The path segments a caller may request under GET /orders/.
OrderPathSegments == OrderIdStrings \cup {"stats"}

\* A route matches the path "/" + segment: a parameter matches every segment
\* that is not empty, a literal matches itself.
route_matches(route, segment) ==
    IF route.segment = Absent THEN segment # "" ELSE route.segment[1] = segment

\* The router serves a request with the first registered route that matches.
dispatch(routes, segment) ==
    routes[CHOOSE i \in DOMAIN routes :
              /\ route_matches(routes[i], segment)
              /\ \A j \in DOMAIN routes : route_matches(routes[j], segment) => i <= j]

\* get_order(order_id) (orders.py 274-317), which takes no token.
get_order_response(order_id) ==
    by_id_response(orders, order_id, "Failed to get order", "Order not found",
        Response(200, None, None, Some(OrderResponse(get_doc(orders, ObjectId(order_id))))))

\* get_order_stats() (orders.py 319-348). Without a store it reads
\* SAMPLE_ORDERS, a name orders.py does not define: NameError, a 500.
get_order_stats_response ==
    IF ~get_collection THEN ServerError("Failed to get order stats: NameError")
    ELSE IF ~storeUp THEN ServerError("Failed to get order stats: ServerSelectionTimeoutError")
    ELSE Response(200, None, None,
             Some([total_orders |-> Len(orders),
                   pending_orders |-> Len(SelectSeq(orders, LAMBDA d : d.status = "pending"))]))

\* GET /orders/{segment}: the request is dispatched and the endpoint answers.
get_orders_path ==
    /\ started
    /\ \E segment \in OrderPathSegments :
         LET endpoint == dispatch(orders_get_routes, segment).endpoint IN
         last' = [op |-> endpoint, stage |-> "body", arg |-> <<segment>>,
                  resp |-> IF endpoint = "get_order_stats" THEN get_order_stats_response
                           ELSE get_order_response(segment)]
    /\ UNCHANGED <<started, database, unique_idx, storeUp, users, reg, now, tok, origin, verdict, orders, reservations, SAMPLE_RESERVATIONS, menu_items, SAMPLE_MENU, adding>>

\* The answer of a reservations body that addresses one reservation: by
\* ObjectId in the collection, or by id in SAMPLE_RESERVATIONS without a store.
reservation_response(id, failed, found_doc, found_sample) ==
    IF get_collection
    THEN by_id_response(reservations, id, failed, "Reservation not found", found_doc)
    ELSE IF sample_index(SAMPLE_RESERVATIONS, id) = 0
         THEN NotFound("Reservation not found")
         ELSE found_sample

\* PUT /reservations/{reservation_id} (reservations.py 182-243)
update_reservation ==
    \E reservation_id \in ReservationIdStrings, status \in UpdateStatuses :
        LET after == find_one_and_update(reservations, ObjectId(reservation_id),
                                         update_data(status))
            i == sample_index(SAMPLE_RESERVATIONS, reservation_id)
            samples == sample_set(SAMPLE_RESERVATIONS, i, update_data(status))
        IN  ProtectedHandler("update_reservation", <<reservation_id>>,
                reservation_response(reservation_id, "Failed to update reservation",
                    Response(200, None, None,
                        Some(ReservationResponse(reservation_id,
                                get_doc(after, ObjectId(reservation_id))))),
                    Response(200, None, None,
                        Some(ReservationResponse(reservation_id, samples[i])))),
                orders,
                IF store_serves(reservations, reservation_id) THEN after ELSE reservations,
                IF ~get_collection /\ i # 0 THEN samples ELSE SAMPLE_RESERVATIONS)

\* A delete_reservation declared without the dependency: the body runs for
\* every request.
delete_reservation_no_dependency ==
    /\ started
    /\ tok.form # "none"
    /\ \E reservation_id \in ReservationIdStrings :
         LET i == sample_index(SAMPLE_RESERVATIONS, reservation_id) IN
         /\ last' = [op |-> "delete_reservation", stage |-> "body",
                     arg |-> <<reservation_id>>,
                     resp |-> reservation_response(reservation_id,
                                 "Failed to delete reservation",
                                 Response(204, None, None, Absent),
                                 Response(204, None, None, Absent))]
         /\ reservations' = IF store_serves(reservations, reservation_id)
                            THEN delete_one(reservations, ObjectId(reservation_id))
                            ELSE reservations
         /\ SAMPLE_RESERVATIONS' = IF ~get_collection /\ i # 0
                                   THEN sample_pop(SAMPLE_RESERVATIONS, i)
                                   ELSE SAMPLE_RESERVATIONS
    /\ UNCHANGED <<started, database, unique_idx, storeUp, users, reg, now, tok, origin, verdict, orders, menu_items, SAMPLE_MENU, adding>>

\* DELETE /reservations/{reservation_id} (reservations.py 245-276)
delete_reservation ==
    \E reservation_id \in ReservationIdStrings :
        LET i == sample_index(SAMPLE_RESERVATIONS, reservation_id) IN
        ProtectedHandler("delete_reservation", <<reservation_id>>,
            reservation_response(reservation_id, "Failed to delete reservation",
                Response(204, None, None, Absent), Response(204, None, None, Absent)),
            orders,
            IF store_serves(reservations, reservation_id)
            THEN delete_one(reservations, ObjectId(reservation_id)) ELSE reservations,
            IF ~get_collection /\ i # 0
            THEN sample_pop(SAMPLE_RESERVATIONS, i) ELSE SAMPLE_RESERVATIONS)

\* GET /reservations/{reservation_id} (reservations.py 309-357)
get_reservation ==
    \E reservation_id \in ReservationIdStrings :
        LET i == sample_index(SAMPLE_RESERVATIONS, reservation_id) IN
        ProtectedHandler("get_reservation", <<reservation_id>>,
            reservation_response(reservation_id, "Failed to get reservation",
                Response(200, None, None,
                    Some(ReservationResponse(reservation_id,
                            get_doc(reservations, ObjectId(reservation_id))))),
                Response(200, None, None,
                    Some(ReservationResponse(reservation_id, SAMPLE_RESERVATIONS[i])))),
            orders, reservations, SAMPLE_RESERVATIONS)

\* POST /reservations/ (reservations.py 143-180), which takes no token. Without
\* a store the document is appended with its id set, and then
\* ReservationResponse(id = reservation_id, **reservation_doc) raises TypeError
\* for the repeated keyword id, which `except Exception` answers as a 500.
create_reservation ==
    /\ started
    /\ (get_collection /\ storeUp) => StoreHolds < MaxDocs
    /\ ~get_collection => Len(SAMPLE_RESERVATIONS) <= Len(SampleReservations)
    /\ LET reservation_doc == [status |-> "pending", created_at |-> now, updated_at |-> now]
           reservation_id == DevId[Len(SAMPLE_RESERVATIONS) + 1]
       IN  IF ~get_collection
           THEN /\ SAMPLE_RESERVATIONS' = Append(SAMPLE_RESERVATIONS,
                        [k \in DOMAIN reservation_doc \cup {"id"} |->
                            IF k = "id" THEN reservation_id ELSE reservation_doc[k]])
                /\ reservations' = reservations
                /\ last' = [op |-> "create_reservation", stage |-> "body", arg |-> << >>,
                            resp |-> HTTPException(500,
                                "Failed to create reservation: TypeError", None)]
           ELSE IF ~storeUp
           THEN /\ UNCHANGED <<reservations, SAMPLE_RESERVATIONS>>
                /\ last' = [op |-> "create_reservation", stage |-> "body", arg |-> << >>,
                            resp |-> HTTPException(500,
                                "Failed to create reservation: ServerSelectionTimeoutError", None)]
           ELSE /\ reservations' = insert_doc(reservations, reservation_doc)
                /\ SAMPLE_RESERVATIONS' = SAMPLE_RESERVATIONS
                /\ last' = [op |-> "create_reservation", stage |-> "body", arg |-> << >>,
                            resp |-> Response(201, None, None,
                                Some(ReservationResponse(str_oid(NextId(reservations)),
                                                         reservation_doc)))]
    /\ UNCHANGED <<started, database, unique_idx, storeUp, users, reg, now, tok, origin, verdict, orders, menu_items, SAMPLE_MENU, adding>>

-----------------------------------------------------------------------------
(* The protected specification: every endpoint declared with                  *)
(* Depends(verify_token), called with tokens the service issued and with what *)
(* a caller can make of them.                                                 *)

NextProtected ==
    \/ init_db
    \/ StoreFails
    \/ StoreRecovers
    \/ token_issued
    \/ TamperToken
    \/ create_reservation
    \/ get_current_user
    \/ create_guest_order
    \/ create_order
    \/ get_orders_path
    \/ update_order
    \/ delete_order
    \/ update_reservation
    \/ delete_reservation
    \/ get_reservation
    \/ activate_user
    \/ deactivate_user
    \/ get_dashboard_stats
    \/ get_all_users
    \/ get_analytics
    \/ upload_image
    \/ add_menu_item
    \/ admin_update_menu_item
    \/ admin_delete_menu_item
    \/ get_all_menu_items
    \/ create_menu_item
    \/ update_menu_item
    \/ delete_menu_item

SpecProtected == Init /\ [][NextProtected]_vars

-----------------------------------------------------------------------------
(* The menu specification: concurrent add_menu_item requests.                 *)

NextMenu ==
    \/ init_db
    \/ StoreFails
    \/ StoreRecovers
    \/ token_issued
    \/ \E c \in Clients : add_menu_item_receive(c)
    \/ \E c \in Clients : add_menu_item_find(c)
    \/ \E c \in Clients : add_menu_item_insert(c)

SpecMenu == Init /\ [][NextMenu]_vars

-----------------------------------------------------------------------------
(* The lists specification: creating and deleting reservations and menu       *)
(* items, with a store and without one.                                       *)

NextLists ==
    \/ init_db
    \/ token_issued
    \/ create_reservation
    \/ delete_reservation
    \/ create_menu_item
    \/ delete_menu_item

SpecLists == Init /\ [][NextLists]_vars

\* The endpoints declared with Depends(verify_token).
ProtectedOps ==
    AdminOps \cup {"get_current_user", "create_order", "update_order", "delete_order",
                   "update_reservation", "delete_reservation", "get_reservation"}

\* C13: when an endpoint declared with Depends(verify_token) answers a request
\* whose token fails verification, the answer is the 401 of verify_token, given
\* before the body runs: it is the same whatever the stores hold, and the users,
\* orders, reservations and menu_items collections, SAMPLE_RESERVATIONS and
\* SAMPLE_MENU are unchanged.
C13_UnauthorizedBeforeBody ==
    [][(/\ last' # last
        /\ last'.op \in ProtectedOps
        /\ verify_token(tok, now).payload = Absent)
          => /\ last'.stage = "verify_token"
             /\ last'.resp = Unauthorized
             /\ users' = users
             /\ orders' = orders
             /\ reservations' = reservations
             /\ SAMPLE_RESERVATIONS' = SAMPLE_RESERVATIONS
             /\ menu_items' = menu_items
             /\ SAMPLE_MENU' = SAMPLE_MENU
      ]_vars

\* A delete_reservation naming a stored reservation was refused with 401 for
\* its altered token, and the reservation is still stored.
C13_Witness ==
    /\ last.op = "delete_reservation"
    /\ last.stage = "verify_token"
    /\ last.resp.status = 401
    /\ verify_token(tok, now).payload = Absent
    /\ store_serves(reservations, last.arg[1])

-----------------------------------------------------------------------------
(* Authentication failure and authorization failure                           *)

\* C14: when an admin-only operation answers a request, a token that fails
\* verification (altered, malformed or expired) gets 401 from verify_token and
\* never 403, whatever role it states; and a token that verifies and whose role
\* is not admin gets 403 at the role check, never 401 and never a 5xx.
C14_UnauthorizedOrForbidden ==
    [][(last' # last /\ last'.op \in AdminOps)
          => LET current_user == verify_token(tok, now) IN
             /\ (current_user.payload = Absent)
                  => /\ last'.stage = "verify_token"
                     /\ last'.resp.status = 401
             /\ (current_user.payload # Absent /\ ~is_admin(current_user.payload[1]))
                  => /\ last'.stage = "role_check"
                     /\ last'.resp.status = 403
             /\ (last'.resp.status = 403)
                  => current_user.payload # Absent
             /\ (last'.resp.status = 401)
                  => current_user.payload = Absent
      ]_vars

\* delete_menu_item has answered 401 to a well signed customer token that had
\* expired.
C14_Witness ==
    /\ last.op = "delete_menu_item"
    /\ last.stage = "verify_token"
    /\ last.resp.status = 401
    /\ WellSigned(tok)
    /\ tok.claims.exp < now
    /\ tok.claims.role = "customer"

-----------------------------------------------------------------------------
(* The expiry create_access_token encodes                                     *)

\* C15: the token create_access_token returned carries the expiry
\* now + expires_delta for every expires_delta it was given, a zero one
\* included, and now + ACCESS_TOKEN_EXPIRE_MINUTES only when it was given none.
C15_ExpiryIsNowPlusTtl ==
    (origin # NoOrigin /\ WellSigned(tok))
      => tok.claims.exp =
           origin.at + (IF origin.expires_delta = Absent
                        THEN timedelta_minutes(ACCESS_TOKEN_EXPIRE_MINUTES)
                        ELSE origin.expires_delta[1])

-----------------------------------------------------------------------------
(* What a successful register persists and returns                            *)

\* C16: a register request that is answered 201 has added exactly one record
\* to the users collection, with is_active true, the request's role, and a
\* password field that is a hash the request's password verifies against; and
\* the response and the token it carries name the _id the store gave that
\* record and the role persisted.
C16_RegisterPersistsOneRecord ==
    [][\A c \in Clients :
         (reg[c].pc # "done" /\ reg'[c].pc = "done" /\ reg'[c].resp.status = 201)
           => /\ Len(users') = Len(users) + 1
              /\ SubSeq(users', 1, Len(users)) = users
              /\ LET record == users'[Len(users')]
                     body == reg'[c].resp.body[1]
                 IN  /\ record.is_active
                     /\ record.role = reg[c].role
                     /\ \E salt \in Salts :
                          record.password = hash_password(reg[c].password, salt)
                     /\ verify_password(reg[c].password, record.password)
                     /\ body.user_id = str_oid(record["_id"])
                     /\ body.role = record.role
                     /\ body.access_token.claims.sub = body.user_id
                     /\ body.access_token.claims.role = record.role
      ]_vars

-----------------------------------------------------------------------------
(* Register, then login                                                       *)

\* The register request of client c was answered 201 by a service that has a
\* database handle, for this email and this password.
Registered(c, email, password) ==
    /\ database
    /\ reg[c].pc = "done"
    /\ reg[c].resp.status = 201
    /\ reg[c].email = email
    /\ reg[c].password = password

\* C17: a login that reaches the store with the email and the password of a
\* register request that was answered 201, while the record is active, is
\* answered 200 with a token; the user_id and the role of the response and the
\* sub and the role of the token are the _id and the role of the stored record,
\* and are the user_id and the role the register response returned.
C17_LoginAfterRegister ==
    [][\A c \in Clients :
         (/\ last' # last
          /\ last'.op = "login"
          /\ storeUp
          /\ Registered(c, last'.arg.email, last'.arg.password)
          /\ HasActiveAccount(last'.arg.email))
           => LET record == AccountOf(last'.arg.email)[1]
                  registered == reg[c].resp.body[1]
              IN  /\ last'.resp.status = 200
                  /\ last'.resp.body # Absent
                  /\ LET body == last'.resp.body[1] IN
                     /\ body.user_id = str_oid(record["_id"])
                     /\ body.role = record.role
                     /\ body.access_token.claims.sub = body.user_id
                     /\ body.access_token.claims.role = body.role
                     /\ verify_token(body.access_token, now).payload # Absent
                     /\ body.user_id = registered.user_id
                     /\ body.role = registered.role
      ]_vars

\* A login has succeeded for the account an admin registration created, with
\* the identity and the role the registration returned.
C17_Witness ==
    \E c \in Clients :
        /\ last.op = "login"
        /\ last.resp.status = 200
        /\ Registered(c, last.arg.email, last.arg.password)
        /\ reg[c].role = "admin"
        /\ last.resp.body[1].user_id = reg[c].resp.body[1].user_id
        /\ last.resp.body[1].role = "admin"
        /\ last.resp.body[1].access_token.claims.role = "admin"

-----------------------------------------------------------------------------
(* Tokens are not revoked                                                     *)

\* C18: a protected endpoint accepts every well signed token that has a sub
\* and has not reached its expiry, whatever the users collection holds and
\* whether or not the store answers: also when the account of its sub has been
\* deactivated or has no record. verify_token decides from the token, the key
\* and the time alone.
C18_VerificationIgnoresStore ==
    [][(/\ last' # last
        /\ last'.op \in ProtectedOps
        /\ WellSigned(tok)
        /\ "sub" \in DOMAIN tok.claims
        /\ now < tok.claims.exp)
          => /\ last'.stage # "verify_token"
             /\ last'.resp.status # 401
      ]_vars

\* /auth/me has run its body for the token of an account that deactivate_user
\* had set inactive after the token was issued.
C18_Witness ==
    /\ last.op = "get_current_user"
    /\ last.stage = "body"
    /\ last.resp.status = 200
    /\ WellSigned(tok)
    /\ RecordOf(tok.claims.sub) # 0
    /\ ~users[RecordOf(tok.claims.sub)].is_active
    /\ "updated_at" \in DOMAIN users[RecordOf(tok.claims.sub)]

-----------------------------------------------------------------------------
(* What the endpoints leave of a credential record                            *)

\* C19: every step keeps every record of the users collection in its place
\* with its _id and its role; a step that changes a record is an activate_user
\* or deactivate_user call, and it changes no field but is_active and
\* updated_at.
C19_IdentityAndRoleImmutable ==
    [][\A i \in DOMAIN users :
         /\ i \in DOMAIN users'
         /\ users'[i]["_id"] = users[i]["_id"]
         /\ users'[i].role = users[i].role
         /\ (users'[i] # users[i])
              => /\ last'.op \in {"activate_user", "deactivate_user"}
                 /\ DOMAIN users'[i] = DOMAIN users[i] \cup {"updated_at"}
                 /\ \A k \in DOMAIN users[i] \ {"is_active", "updated_at"} :
                      users'[i][k] = users[i][k]
      ]_vars

\* A record registered as admin has been deactivated and still has the _id
\* and the role its registration returned.
C19_Witness ==
    \E c \in Clients :
        /\ Registered(c, reg[c].email, reg[c].password)
        /\ reg[c].role = "admin"
        /\ HasInactiveAccount(reg[c].email)
        /\ "updated_at" \in DOMAIN AccountOf(reg[c].email)[1]
        /\ str_oid(AccountOf(reg[c].email)[1]["_id"]) = reg[c].resp.body[1].user_id
        /\ AccountOf(reg[c].email)[1].role = "admin"

-----------------------------------------------------------------------------
(* The password specification: hash_password, then verify_password            *)

\* Plaintext passwords: short ones, and two of 73 bytes that differ in the
\* last byte only.
PlainSecrets ==
    {"pw1", "pw2", "admin123",
     "aaaaaaaaaaaaaaaaaaaaaaaaaaaaaaaaaaaaaaaaaaaaaaaaaaaaaaaaaaaaaaaaaaaaaaaax",
     "aaaaaaaaaaaaaaaaaaaaaaaaaaaaaaaaaaaaaaaaaaaaaaaaaaaaaaaaaaaaaaaaaaaaaaaay"}
BcryptSalts == {"salt1", "salt2"}

\* What the installed bcrypt does with a password of more than 72 bytes: it
\* ignores the bytes after the 72nd, or (from bcrypt 5.0) raises ValueError.
BcryptBuilds == {"truncates", "raises"}

\* verify_password(candidate, hash_password(password)) with the salt gensalt()
\* drew: "True", "False", or the exception raised.
hash_then_verify(password, candidate, salt, build) ==
    IF build = "raises" /\ (Len(password) > 72 \/ Len(candidate) > 72)
    THEN "ValueError"
    ELSE IF verify_password(candidate, hash_password(password, salt))
         THEN "True" ELSE "False"

check_password ==
    /\ \E password \in PlainSecrets, candidate \in PlainSecrets,
          salt \in BcryptSalts, build \in BcryptBuilds :
         last' = [op |-> "verify_password", stage |-> "body",
                  arg |-> [password |-> password, candidate |-> candidate,
                           salt |-> salt, build |-> build],
                  resp |-> Response(0, hash_then_verify(password, candidate, salt, build),
                                    None, Absent)]
    /\ UNCHANGED <<started, database, unique_idx, storeUp, users, reg, now, tok, origin, verdict, orders, reservations, SAMPLE_RESERVATIONS, menu_items, SAMPLE_MENU, adding>>

NextPassword == check_password

SpecPassword == Init /\ [][NextPassword]_vars

\* C20: for all plaintext passwords p and p', verify_password(p',
\* hash_password(p)) returns true when p' = p and returns false, without
\* raising, when p' differs from p.
C20_VerifyIffSamePassword ==
    (last.op = "verify_password")
      => last.resp.detail = (IF last.arg.candidate = last.arg.password
                             THEN "True" ELSE "False")

-----------------------------------------------------------------------------
(* Who is handed a token with role admin                                      *)

-----------------------------------------------------------------------------
(* The order of the checks of login                                           *)

\* C23: a login that reaches the store leaves the handler at the existence
\* check when no record has the email, at the is_active test when the record is
\* inactive, and at the password verification or after it only when the record
\* is active: for an inactive account the password is not verified and the
\* answer is "Account is inactive" whatever the password. That answer is given
\* exactly when the store is reached and the email belongs to an inactive
\* account.
C23_LoginCheckOrder ==
    [][(last' # last /\ last'.op = "login")
          => LET email == last'.arg.email
                 password == last'.arg.password
             IN  /\ (last'.resp.detail = "Account is inactive")
                      <=> (database /\ storeUp /\ HasInactiveAccount(email))
                 /\ (database /\ storeUp /\ AccountOf(email) = Absent)
                      => last'.stage = "find_one"
                 /\ (database /\ storeUp /\ HasInactiveAccount(email))
                      => /\ last'.stage = "is_active"
                         /\ last'.resp = AccountInactive
                 /\ (last'.stage \in {"verify_password", "return"})
                      => HasActiveAccount(email)
                 /\ (last'.stage = "return")
                      <=> (last'.resp.status = 200 /\ database)
      ]_vars

\* The last login named an inactive account with a password that does not
\* verify, left the handler at the is_active test, and was answered "Account is
\* inactive".
C23_Witness ==
    /\ last.op = "login"
    /\ database /\ storeUp
    /\ HasInactiveAccount(last.arg.email)
    /\ ~verify_password(last.arg.password, AccountOf(last.arg.email)[1].password)
    /\ last.stage = "is_active"
    /\ last.resp.detail = "Account is inactive"

-----------------------------------------------------------------------------
(* GET /auth/me for an identity without a record                              *)

\* C24: when /auth/me runs its body against a reachable users collection, it
\* answers 404 "User not found" if no record has the identity of the token, and
\* it answers 200 only if the record exists, and then with the username, the
\* email and the role of that record.
C24_MissingRecordIs404 ==
    [][(/\ last' # last
        /\ last'.op = "get_current_user"
        /\ last'.stage = "body"
        /\ database /\ storeUp)
          => LET i == RecordOf(verify_token(tok, now).payload[1].sub) IN
             /\ (i = 0) => /\ last'.resp.status = 404
                           /\ last'.resp.detail = "User not found"
             /\ (last'.resp.status = 200)
                  => /\ i # 0
                     /\ last'.resp.body[1].username = users[i].username
                     /\ last'.resp.body[1].email = users[i].email
                     /\ last'.resp.body[1].role = users[i].role
      ]_vars

-----------------------------------------------------------------------------
(* Creating an order without a store                                          *)

\* C25: when no store is connected, create_guest_order and create_order (for
\* a token that verifies) answer 503 "Database connection unavailable", the
\* answer update_order and delete_order give in that situation, and the orders
\* collection is unchanged.
C25_CreateOrderUnavailableIs503 ==
    [][(/\ last' # last
        /\ last'.op \in {"create_guest_order", "create_order", "update_order", "delete_order"}
        /\ last'.stage = "body"
        /\ ~database)
          => /\ last'.resp = Unavailable
             /\ orders' = orders
      ]_vars

-----------------------------------------------------------------------------
(* GET /orders/stats                                                          *)

\* C29: a request GET /orders/stats is served by get_order_stats, whether or
\* not a store is connected, and is answered 200 with total_orders the number
\* of orders, pending_orders the number of pending orders, and
\* pending_orders <= total_orders.
C29_StatsServedByStats ==
    [][(/\ last' # last
        /\ last'.op \in {"get_orders", "get_order", "get_order_stats"}
        /\ last'.arg = <<"stats">>)
          => /\ last'.op = "get_order_stats"
             /\ last'.resp.status = 200
             /\ last'.resp.body[1].total_orders = Len(orders)
             /\ last'.resp.body[1].pending_orders =
                  Len(SelectSeq(orders, LAMBDA d : d.status = "pending"))
             /\ last'.resp.body[1].pending_orders <= last'.resp.body[1].total_orders
      ]_vars

-----------------------------------------------------------------------------
(* Who changes the menu                                                       *)

\* C21: every step that changes the menu (the menu_items collection, or
\* SAMPLE_MENU when no store is connected) is the body of a menu-writing
\* operation serving a request whose token verify_token accepts and whose role
\* is admin: no request without a valid token, and none with another role,
\* creates, updates or deletes a menu item.
C21_MenuChangedOnlyByAdmin ==
    [][(menu_items' # menu_items \/ SAMPLE_MENU' # SAMPLE_MENU)
          => /\ verify_token(tok, now).payload # Absent
             /\ Get(verify_token(tok, now).payload[1], "role") = "admin"
             /\ last'.stage = "body"
             /\ last'.op \in {"create_menu_item", "update_menu_item", "delete_menu_item",
                              "add_menu_item", "admin_update_menu_item",
                              "admin_delete_menu_item"}
      ]_vars

\* The body of create_menu_item ran for a request with a valid admin token and
\* stored the item.
C21_Witness ==
    /\ last.op = "create_menu_item"
    /\ last.stage = "body"
    /\ last.resp.status = 201
    /\ Len(menu_items) = 1
    /\ Get(verify_token(tok, now).payload[1], "role") = "admin"

-----------------------------------------------------------------------------
(* PUT /menu/{item_id} with a store                                            *)

\* C28: with a store connected, when the body of update_menu_item answers an
\* admin's request, the answer is 404 or it is 200 carrying the stored item as
\* it is after the update; and a body whose name is not set, or set to null,
\* leaves the stored item as it was.
C28_UpdateAnswersItemOr404 ==
    [][(/\ last' # last
        /\ last'.op = "update_menu_item"
        /\ last'.stage = "body"
        /\ get_collection)
          => \/ last'.resp.status = 404
             \/ /\ last'.resp.status = 200
                /\ has_doc(menu_items', ObjectId(last'.arg[1]))
                /\ last'.resp.body =
                      Some(MenuItemResponse(last'.arg[1],
                                            get_doc(menu_items', ObjectId(last'.arg[1]))))
                /\ ~name_is_set(last'.arg[2]) => menu_items' = menu_items
      ]_vars

-----------------------------------------------------------------------------
(* The create operations and the in-memory lists                               *)

\* C26: when create_reservation or the body of create_menu_item answers with an
\* error status, the reservations and menu_items collections, SAMPLE_RESERVATIONS
\* and SAMPLE_MENU are as they were before the request; and when the request
\* added an entry to one of them, the answer is 201 carrying that entry.
C26_CreateChangesOnlyOnSuccess ==
    [][(/\ last' # last
        /\ last'.op \in {"create_reservation", "create_menu_item"}
        /\ last'.stage = "body")
          => /\ last'.resp.status >= 400
                  => /\ reservations' = reservations
                     /\ SAMPLE_RESERVATIONS' = SAMPLE_RESERVATIONS
                     /\ menu_items' = menu_items
                     /\ SAMPLE_MENU' = SAMPLE_MENU
             /\ reservations' # reservations
                  => /\ last'.resp.status = 201
                     /\ LET doc == reservations'[Len(reservations')]
                        IN  last'.resp.body =
                               Some(ReservationResponse(str_oid(doc["_id"]), doc))
             /\ menu_items' # menu_items
                  => /\ last'.resp.status = 201
                     /\ LET doc == menu_items'[Len(menu_items')]
                        IN  last'.resp.body =
                               Some(MenuItemResponse(str_oid(doc["_id"]), doc))
             /\ SAMPLE_RESERVATIONS' # SAMPLE_RESERVATIONS
                  => /\ last'.resp.status = 201
                     /\ LET doc == SAMPLE_RESERVATIONS'[Len(SAMPLE_RESERVATIONS')]
                        IN  last'.resp.body = Some(ReservationResponse(doc.id, doc))
             /\ SAMPLE_MENU' # SAMPLE_MENU
                  => /\ last'.resp.status = 201
                     /\ LET doc == SAMPLE_MENU'[Len(SAMPLE_MENU')]
                        IN  last'.resp.body = Some(MenuItemResponse(doc.id, doc))
      ]_vars

\* C27: without a store, the entries of SAMPLE_RESERVATIONS have pairwise
\* distinct ids and the entries of SAMPLE_MENU have pairwise distinct ids, after
\* any sequence of create and delete requests.
C27_SampleIdsDistinct ==
    ~get_collection =>
        /\ \A i, j \in DOMAIN SAMPLE_RESERVATIONS :
               SAMPLE_RESERVATIONS[i].id = SAMPLE_RESERVATIONS[j].id => i = j
        /\ \A i, j \in DOMAIN SAMPLE_MENU :
               SAMPLE_MENU[i].id = SAMPLE_MENU[j].id => i = j

-----------------------------------------------------------------------------
(* Concurrent add_menu_item requests                                           *)

\* C30: whatever the interleaving of the add_menu_item requests of admins, no
\* two documents of the menu_items collection have the same name.
C30_MenuNamesDistinct ==
    \A i, j \in DOMAIN menu_items :
        menu_items[i].name = menu_items[j].name => i = j

=============================================================================
